---- MODULE Spec2Model ----
(***************************************************************************)
(* A model of the resilient fetch layer of freesnow,                       *)
(* src/src/data/retryFetch.ts: fetchJSONWithRetry with its retry loop      *)
(* (doFetch), the response cache, the in-flight map and clearFetchCache.   *)
(*                                                                         *)
(* JavaScript runs each synchronous stretch of code atomically; the model  *)
(* has one action per stretch: the synchronous prefix of a call, each      *)
(* settlement of `await fetch`, the wake-up after `await sleep`, the       *)
(* resumption after `await promise`, and the return of a result to the     *)
(* caller.  A caller that was handed the in-flight promise settles as that *)
(* promise does.                                                           *)
(*                                                                         *)
(* Further sections model the delay computation (retryDelayMs), the        *)
(* forecast functions of src/src/data/openmeteo.ts, the components that    *)
(* load weather data (src/src/hooks/useWeather.ts, FavoriteCard) and the   *)
(* multi-model averaging of src/src/utils/modelAverage.ts, followed by its *)
(* blendWithNWS and meanAngle, the daily roll-up mapDaily and the two      *)
(* splitDayPeriods of the components.  Each has its own specification over *)
(* the same variables.                                                     *)
(***************************************************************************)
EXTENDS Integers, Sequences, FiniteSets, TLC

VARIABLES
    responseCache,     \* Map<string, CacheEntry>            (retryFetch.ts:22)
    inflightRequests,  \* Map<string, Promise<unknown>>      (retryFetch.ts:23)
    now,               \* Date.now()
    calls,             \* one record per fetchJSONWithRetry invocation
    requests,          \* one record per doFetch() invocation, keyed by its caller
    lastOp,            \* history: what the step into this state was, when it was
                       \* clearFetchCache or the resumption after `await promise`
    cacheOrigin,       \* history: the `init` of the request each cache entry answers
    backoff,           \* one computation of retryDelayMs: its arguments and result
    forecast,          \* one invocation of a function of data/openmeteo.ts
    consumer,          \* one component: its loads of weather data, or its split of a
                       \* day's snowfall into periods
    averaging          \* one invocation of a function of utils/modelAverage.ts

vars == <<responseCache, inflightRequests, now, calls, requests, lastOp, cacheOrigin,
          backoff, forecast, consumer, averaging>>

\* The state of fetchJSONWithRetry and clearFetchCache, and the rest.
fetchVars == <<responseCache, inflightRequests, now, calls, requests, lastOp, cacheOrigin>>
otherVars == <<backoff, forecast, consumer, averaging>>
exceptBackoff == <<fetchVars, forecast, consumer, averaging>>
exceptForecast == <<fetchVars, backoff, consumer, averaging>>
exceptConsumer == <<fetchVars, backoff, forecast, averaging>>
exceptAveraging == <<fetchVars, backoff, forecast, consumer>>

----------------------------------------------------------------------------
(* Bounds of the model. *)

MaxModels == 3         \* series averaged at once, over two timestamps
MaxContributors == 4   \* series averaged at once, over one timestamp
MaxLoads == 2          \* loads one component starts
MaxTime == 1           \* the clock runs 0..MaxTime
MaxTtl == 1            \* options.cacheTtlMs ranges over 0..MaxTtl
MaxRetriesBound == 2   \* options.maxRetries ranges over 0..MaxRetriesBound in RetrySpec
MaxAttempt == 3        \* the attempt a delay follows ranges over 0..MaxAttempt in DelaySpec

\* The invocations of fetchJSONWithRetry that can be in progress at once; an
\* invocation gives its slot back when its caller has its result, so a run
\* holds any number of invocations.
CallIds == {1, 2}
URLs == {"u1", "u2"}
Labels == {"HTTP", "Test API"}
JsonValues == {"v1", "v2"}

\* HTTP statuses the server answers with, and their reason texts.
Statuses == {200, 400, 404, 429, 500, 503}
StatusText(status) ==
    CASE status = 200 -> "OK"
      [] status = 400 -> "Bad Request"
      [] status = 404 -> "Not Found"
      [] status = 429 -> "Too Many Requests"
      [] status = 500 -> "Internal Server Error"
      [] status = 503 -> "Service Unavailable"

\* Response bodies: a JSON document, or text that JSON.parse rejects.
BadBody == "<html>"
Bodies == JsonValues \cup {BadBody}

\* Values `fetch` rejects with: an Error, or a value that is no Error
\* (an AbortSignal's reason may be any value).
ThrownValues == {[isError |-> TRUE, message |-> "Network down"],
                 [isError |-> FALSE, message |-> "aborted"]}

----------------------------------------------------------------------------
(* Values. *)

NoEntry == [present |-> FALSE]
CacheEntry(data, expiresAt) == [present |-> TRUE, data |-> data, expiresAt |-> expiresAt]

NoPromise == 0

MkError(message) == [kind |-> "error", message |-> message]
MkValue(v) == [kind |-> "value", data |-> v]
Unsettled == [kind |-> "pending"]

\* new Error(`${label} request failed`)                      (retryFetch.ts:98,124)
GenericError(label) == MkError(label \o " request failed")

\* A slip: the label is left out of the message.
HttpErrorNoLabel(label, status) ==
    MkError(ToString(status) \o ": " \o StatusText(status))

\* new Error(`${label} ${res.status}: ${res.statusText}`)        (retryFetch.ts:108)
HttpError(label, status) ==
    MkError(label \o " " \o ToString(status) \o ": " \o StatusText(status))

\* res.ok: the status is in the range 200-299.
ResOk(status) == status >= 200 /\ status <= 299

\* shouldRetryStatus                                            (retryFetch.ts:31-33)
\* A slip: only 429 is retried.
shouldRetryOnly429(status) == status = 429

shouldRetryStatus(status) == status = 429 \/ status >= 500

\* res.json(): the parsed body, or a rejection with a SyntaxError.
ResJson(body) ==
    IF body \in JsonValues THEN MkValue(body)
    ELSE MkError("SyntaxError: Unexpected token")

----------------------------------------------------------------------------
(* Initial state: module load, nothing called yet. *)

\* The `init` argument, as far as a request's identity goes: its method and
\* its body.  Without `init` the request is a GET with no body.
NoInit == [method |-> "GET", body |-> ""]
Inits == {NoInit, [method |-> "POST", body |-> "a"], [method |-> "POST", body |-> "b"],
          [method |-> "PUT", body |-> "a"]}

\* The key of a request in both maps: responseCache.get(url),
\* inflightRequests.get(url), inflightRequests.set(url, promise),
\* responseCache.set(url, ...), inflightRequests.delete(url).
cacheKey(url, init) == url

FreeCall ==
    [source |-> "none", url |-> "u1", init |-> NoInit, cacheTtlMs |-> 0, maxRetries |-> 0,
     label |-> "HTTP", promise |-> NoPromise, cached |-> Unsettled]

\* A doFetch run: where it stands (pc), its locals attempt and lastError, what
\* its promise settled to, and three history fields: the number of
\* fetch(url, init) calls it made, what the network answered to each, and
\* whether clearFetchCache ran while it was outstanding.
NoRequest ==
    [pc |-> "none", attempt |-> 0, lastError |-> Unsettled, outcome |-> Unsettled,
     fetches |-> 0, answers |-> <<>>, cleared |-> FALSE]

\* Values of lastOp.
OtherOp == [op |-> "other"]
ClearOp(dropped) == [op |-> "clear", dropped |-> dropped]
AwaitOp(call, req, callers) ==
    [op |-> "await", url |-> call.url, cacheTtlMs |-> call.cacheTtlMs,
     outcome |-> req.outcome, fetches |-> req.fetches, cleared |-> req.cleared,
     callers |-> callers]

\* No retry delay has been computed.
NoBackoff == [pc |-> "none"]

\* The maps are empty and no invocation is in progress.
InitFetch ==
    /\ responseCache = [u \in URLs |-> NoEntry]
    /\ inflightRequests = [u \in URLs |-> NoPromise]
    /\ now = 0
    /\ calls = [c \in CallIds |-> FreeCall]
    /\ requests = [c \in CallIds |-> NoRequest]
    /\ lastOp = OtherOp
    /\ cacheOrigin = [u \in URLs |-> NoInit]

\* Neither fetchForecast nor fetchMultiModelForecast has been called.
NoForecast == [pc |-> "idle"]
NoConsumer == [kind |-> "none"]
NoAveraging == [pc |-> "none"]

Init ==
    /\ InitFetch
    /\ backoff = NoBackoff
    /\ forecast = NoForecast
    /\ consumer = NoConsumer
    /\ averaging = NoAveraging

----------------------------------------------------------------------------
(* Helpers over the state. *)

\* A doFetch run that has not settled: a fetch is pending or it sleeps.
Outstanding(r) == requests[r].pc \in {"fetch", "sleep"}

\* The outstanding doFetch runs of caching-enabled calls for a key.
OutstandingFor(u) ==
    {r \in CallIds : Outstanding(r) /\ calls[r].url = u /\ calls[r].cacheTtlMs > 0}

\* A slip: an entry is still served at the instant it expires.
CacheLiveAtExpiry(u) == responseCache[u].present /\ now <= responseCache[u].expiresAt

\* cached && Date.now() < cached.expiresAt                       (retryFetch.ts:74)
CacheLive(u) == responseCache[u].present /\ now < responseCache[u].expiresAt

\* The callers that were handed the promise of doFetch run r.
Joiners(r) == {j \in CallIds : calls[j].source = "inflight" /\ calls[j].promise = r}

\* No caller is waiting to resume from a settled promise.  A resumption from
\* `await promise`, `return doFetch()` or `return cached.data` is a microtask;
\* an answer of the network is a task, and a task starts only when no
\* microtask is left to run.
MicrotasksDrained ==
    \A c \in CallIds : requests[c].pc # "settled" /\ calls[c].source # "cache"

----------------------------------------------------------------------------
(* doFetch: the retry loop.                          (retryFetch.ts:85-125) *)

\* The head of `for (attempt = 0; attempt <= maxRetries; attempt++)`: another
\* `fetch(url, init)` is issued, or the loop is left and line 124 throws.
LoopHead(req, attempt, maxRetries, label) ==
    IF attempt <= maxRetries
    THEN [req EXCEPT !.pc = "fetch", !.attempt = attempt, !.fetches = req.fetches + 1]
    ELSE [req EXCEPT !.pc = "settled", !.attempt = attempt, !.lastError = Unsettled,
                     !.outcome = IF req.lastError.kind = "error" THEN req.lastError
                                 ELSE GenericError(label)]

\* const promise = doFetch(): runs synchronously up to the first `await fetch`.
StartDoFetch(maxRetries, label) == LoopHead(NoRequest, 0, maxRetries, label)

\* A slip: the catch block rethrows the error of the attempt before.
OnFetchThrowsStale(req, thrown, maxRetries, label) ==
    LET lastError == IF req.lastError.kind = "error" THEN req.lastError
                     ELSE GenericError(label)
    IN  IF req.attempt = maxRetries
        THEN [req EXCEPT !.pc = "settled", !.lastError = Unsettled, !.outcome = lastError]
        ELSE [req EXCEPT !.pc = "sleep", !.lastError = lastError]

\* The catch block of `await fetch(url, init)`.                (retryFetch.ts:97-102)
OnFetchThrows(req, thrown, maxRetries, label) ==
    LET lastError == IF thrown.isError THEN MkError(thrown.message)
                     ELSE GenericError(label)
    IN  IF req.attempt = maxRetries
        THEN [req EXCEPT !.pc = "settled", !.lastError = Unsettled, !.outcome = lastError]
        ELSE [req EXCEPT !.pc = "sleep", !.lastError = lastError]

\* A slip: a body that does not parse counts as a failed attempt.
OnResponseRetryingParse(req, status, body, maxRetries, label) ==
    IF ResOk(status) /\ (ResJson(body).kind = "value" \/ req.attempt = maxRetries)
    THEN [req EXCEPT !.pc = "settled", !.lastError = Unsettled, !.outcome = ResJson(body)]
    ELSE LET httpError == IF ResOk(status) THEN ResJson(body) ELSE HttpError(label, status)
         IN  IF (~ResOk(status) /\ ~shouldRetryStatus(status)) \/ req.attempt = maxRetries
             THEN [req EXCEPT !.pc = "settled", !.lastError = Unsettled,
                              !.outcome = httpError]
             ELSE [req EXCEPT !.pc = "sleep", !.lastError = httpError]

\* `fetch` resolved with a Response.                          (retryFetch.ts:104-121)
OnResponse(req, status, body, maxRetries, label) ==
    IF ResOk(status)
    THEN [req EXCEPT !.pc = "settled", !.lastError = Unsettled, !.outcome = ResJson(body)]
    ELSE LET httpError == HttpError(label, status)
         IN  IF ~shouldRetryStatus(status) \/ req.attempt = maxRetries
             THEN [req EXCEPT !.pc = "settled", !.lastError = Unsettled,
                              !.outcome = httpError]
             ELSE [req EXCEPT !.pc = "sleep", !.lastError = httpError]

----------------------------------------------------------------------------
(* fetchJSONWithRetry, up to its first suspension.   (retryFetch.ts:64-139) *)

\* A slip: the cache and the in-flight map are consulted whatever cacheTtlMs is.
CallPathIgnoringTtl(url, cacheTtlMs) ==
    IF CacheLive(url) THEN "cache"
    ELSE IF inflightRequests[url] # NoPromise THEN "inflight"
    ELSE "doFetch"

\* The three ways a call proceeds: answered from the cache, handed the
\* in-flight promise, or starting its own doFetch.           (retryFetch.ts:72-83)
CallPath(url, cacheTtlMs) ==
    IF cacheTtlMs > 0 /\ CacheLive(url) THEN "cache"
    ELSE IF cacheTtlMs > 0 /\ inflightRequests[url] # NoPromise THEN "inflight"
    ELSE "doFetch"

\* inflightRequests.set(url, promise), for a caching-enabled call only.
\*                                                         (retryFetch.ts:127-129)
RegisterInflight(c, url, cacheTtlMs) ==
    IF cacheTtlMs > 0 THEN [inflightRequests EXCEPT ![url] = c]
    ELSE inflightRequests

fetchJSONWithRetry(c, url, init, cacheTtlMs, maxRetries, label) ==
    LET key == cacheKey(url, init)
        path == CallPath(key, cacheTtlMs)
        base == [source |-> path, url |-> url, init |-> init, cacheTtlMs |-> cacheTtlMs,
                 maxRetries |-> maxRetries, label |-> label,
                 promise |-> NoPromise, cached |-> Unsettled]
    IN  /\ calls[c].source = "none"
        /\ \A d \in CallIds : d < c => calls[d].source # "none"
        /\ CASE path = "cache" ->
                  /\ calls' = [calls EXCEPT ![c] =
                        [base EXCEPT !.cached = MkValue(responseCache[key].data)]]
                  /\ UNCHANGED <<requests, inflightRequests>>
             [] path = "inflight" ->
                  /\ calls' = [calls EXCEPT ![c] =
                        [base EXCEPT !.promise = inflightRequests[key]]]
                  /\ UNCHANGED <<requests, inflightRequests>>
             [] path = "doFetch" ->
                  /\ calls' = [calls EXCEPT ![c] = [base EXCEPT !.promise = c]]
                  /\ requests' = [requests EXCEPT ![c] = StartDoFetch(maxRetries, label)]
                  /\ inflightRequests' = RegisterInflight(c, key, cacheTtlMs)
        /\ lastOp' = OtherOp
        /\ UNCHANGED <<responseCache, now, cacheOrigin>>
        /\ UNCHANGED otherVars

----------------------------------------------------------------------------
(* The network and the timers settle what doFetch awaits. *)

\* What the network answered to one fetch, as the history keeps it.
Thrown(thrown) ==
    [kind |-> "thrown", isError |-> thrown.isError, message |-> thrown.message]
Answered(status, body) == [kind |-> "response", status |-> status, body |-> body]

FetchThrows(r, thrown) ==
    /\ MicrotasksDrained
    /\ requests[r].pc = "fetch"
    /\ requests' = [requests EXCEPT ![r] =
           [OnFetchThrows(requests[r], thrown, calls[r].maxRetries, calls[r].label)
               EXCEPT !.answers = Append(@, Thrown(thrown))]]
    /\ lastOp' = OtherOp
    /\ UNCHANGED <<responseCache, inflightRequests, now, calls, cacheOrigin>>
    /\ UNCHANGED otherVars

FetchResponds(r, status, body) ==
    /\ MicrotasksDrained
    /\ requests[r].pc = "fetch"
    /\ requests' = [requests EXCEPT ![r] =
           [OnResponse(requests[r], status, body, calls[r].maxRetries, calls[r].label)
               EXCEPT !.answers = Append(@, Answered(status, body))]]
    /\ lastOp' = OtherOp
    /\ UNCHANGED <<responseCache, inflightRequests, now, calls, cacheOrigin>>
    /\ UNCHANGED otherVars

\* `await sleep(...)` is over: attempt++ and back to the loop head.  With a
\* delay of 0 sleep returns a resolved promise (retryFetch.ts:60), so this
\* step may come before the caller of a settled promise resumes.
SleepDone(r) ==
    /\ requests[r].pc = "sleep"
    /\ requests' = [requests EXCEPT ![r] =
           LoopHead(requests[r], requests[r].attempt + 1, calls[r].maxRetries, calls[r].label)]
    /\ lastOp' = OtherOp
    /\ UNCHANGED <<responseCache, inflightRequests, now, calls, cacheOrigin>>
    /\ UNCHANGED otherVars

----------------------------------------------------------------------------
(* fetchJSONWithRetry, resumed after doFetch settled. *)

\* A slip: the result is stored only while the key is still in the in-flight map.
StoreResultIfTracked(url, outcome, cacheTtlMs) ==
    IF outcome.kind = "value" /\ inflightRequests[url] # NoPromise
    THEN [responseCache EXCEPT ![url] = CacheEntry(outcome.data, now + cacheTtlMs)]
    ELSE responseCache

\* A slip: every entry lives for the shortest time to live.
StoreResultShortestTtl(url, outcome, cacheTtlMs) ==
    IF outcome.kind = "value"
    THEN [responseCache EXCEPT ![url] = CacheEntry(outcome.data, now + 1)]
    ELSE responseCache

\* responseCache.set(url, { data: result, expiresAt: Date.now() + cacheTtlMs }),
\* reached only when `await promise` did not throw.          (retryFetch.ts:131-132)
StoreResult(url, outcome, cacheTtlMs) ==
    IF outcome.kind = "value"
    THEN [responseCache EXCEPT ![url] = CacheEntry(outcome.data, now + cacheTtlMs)]
    ELSE responseCache

\* finally { inflightRequests.delete(url) }                  (retryFetch.ts:134-136)
DeleteInflight(url) == [inflightRequests EXCEPT ![url] = NoPromise]

\* The callers in `done` have their results: their slots are free again.
Release(done) ==
    /\ calls' = [c \in CallIds |-> IF c \in done THEN FreeCall ELSE calls[c]]
    /\ requests' = [c \in CallIds |-> IF c \in done THEN NoRequest ELSE requests[c]]

\* The caching-enabled caller resumes from `await promise`; it and the
\* callers that hold the same promise have their results.    (retryFetch.ts:127-137)
AwaitPromise(c) ==
    /\ requests[c].pc = "settled"
    /\ calls[c].cacheTtlMs > 0
    /\ responseCache' = StoreResult(cacheKey(calls[c].url, calls[c].init),
                                    requests[c].outcome, calls[c].cacheTtlMs)
    /\ cacheOrigin' = IF requests[c].outcome.kind = "value"
                      THEN [cacheOrigin EXCEPT ![cacheKey(calls[c].url, calls[c].init)] =
                               calls[c].init]
                      ELSE cacheOrigin
    /\ inflightRequests' = DeleteInflight(cacheKey(calls[c].url, calls[c].init))
    /\ Release({c} \cup Joiners(c))
    /\ lastOp' = AwaitOp(calls[c], requests[c], {c} \cup Joiners(c))
    /\ UNCHANGED now
    /\ UNCHANGED otherVars

\* `return doFetch()` with caching disabled: the call settles as doFetch did
\* and touches neither map.                                     (retryFetch.ts:139)
ReturnDoFetch(c) ==
    /\ requests[c].pc = "settled"
    /\ calls[c].cacheTtlMs = 0
    /\ Release({c})
    /\ lastOp' = OtherOp
    /\ UNCHANGED <<responseCache, inflightRequests, now, cacheOrigin>>
    /\ UNCHANGED otherVars

\* `return cached.data`: the caller has the cached value.        (retryFetch.ts:75)
ReturnCached(c) ==
    /\ calls[c].source = "cache"
    /\ Release({c})
    /\ lastOp' = OtherOp
    /\ UNCHANGED <<responseCache, inflightRequests, now, cacheOrigin>>
    /\ UNCHANGED otherVars

----------------------------------------------------------------------------
(* clearFetchCache                                     (retryFetch.ts:26-29) *)

\* A slip: only the entries that have expired are dropped.
clearExpiredOnly ==
    /\ responseCache' = [u \in URLs |-> IF CacheLive(u) THEN responseCache[u] ELSE NoEntry]
    /\ inflightRequests' = [u \in URLs |-> NoPromise]
    /\ requests' = [r \in CallIds |->
           IF Outstanding(r) /\ calls[r].cacheTtlMs > 0
           THEN [requests[r] EXCEPT !.cleared = TRUE] ELSE requests[r]]
    /\ lastOp' = ClearOp({u \in URLs : CacheLive(u)})
    /\ UNCHANGED <<now, calls, cacheOrigin>>
    /\ UNCHANGED otherVars

clearFetchCache ==
    /\ responseCache' = [u \in URLs |-> NoEntry]
    /\ inflightRequests' = [u \in URLs |-> NoPromise]
    /\ requests' = [r \in CallIds |->
           IF Outstanding(r) /\ calls[r].cacheTtlMs > 0
           THEN [requests[r] EXCEPT !.cleared = TRUE] ELSE requests[r]]
    /\ lastOp' = ClearOp({u \in URLs : CacheLive(u)})
    /\ UNCHANGED <<now, calls, cacheOrigin>>
    /\ UNCHANGED otherVars

\* The clock advances.
Tick ==
    /\ now < MaxTime
    /\ now' = now + 1
    /\ lastOp' = OtherOp
    /\ UNCHANGED <<responseCache, inflightRequests, calls, requests, cacheOrigin>>
    /\ UNCHANGED otherVars

----------------------------------------------------------------------------
(* Spec: concurrent invocations, the cache and the clock.  The server      *)
(* answers 200 with a JSON document or 400, or the transport fails; the    *)
(* documents are told apart by the doFetch run they answer.                *)

SpecRetries == {0, 1}
SpecStatuses == {200, 400}
NetworkDown == [isError |-> TRUE, message |-> "Network down"]
DocumentFor(r) == IF r = 1 THEN "v1" ELSE "v2"

Next ==
    \/ \E c \in CallIds, url \in URLs, cacheTtlMs \in 0..MaxTtl, maxRetries \in SpecRetries :
          fetchJSONWithRetry(c, url, NoInit, cacheTtlMs, maxRetries, "HTTP")
    \/ \E r \in CallIds : FetchThrows(r, NetworkDown)
    \/ \E r \in CallIds, status \in SpecStatuses :
          FetchResponds(r, status, DocumentFor(r))
    \/ \E r \in CallIds : SleepDone(r)
    \/ \E c \in CallIds : AwaitPromise(c)
    \/ \E c \in CallIds : ReturnDoFetch(c)
    \/ \E c \in CallIds : ReturnCached(c)
    \/ clearFetchCache
    \/ Tick

Spec == Init /\ [][Next]_vars

----------------------------------------------------------------------------
(* RetrySpec: one invocation at a time with caching disabled, any retry    *)
(* budget up to MaxRetriesBound, any label, and every answer of the        *)
(* network: the retry loop alone.                                          *)

NextRetry ==
    \/ \E maxRetries \in 0..MaxRetriesBound, label \in Labels :
          fetchJSONWithRetry(1, "u1", NoInit, 0, maxRetries, label)
    \/ \E thrown \in ThrownValues : FetchThrows(1, thrown)
    \/ \E status \in Statuses, body \in Bodies : FetchResponds(1, status, body)
    \/ SleepDone(1)
    \/ ReturnDoFetch(1)

RetrySpec == Init /\ [][NextRetry]_vars

----------------------------------------------------------------------------
(* KeySpec: caching-enabled requests to one URL that differ in method and  *)
(* body, every one answered 200.                                           *)

NextKey ==
    \/ \E c \in CallIds, init \in Inits :
          fetchJSONWithRetry(c, "u1", init, MaxTtl, 0, "HTTP")
    \/ \E r \in CallIds : FetchResponds(r, 200, DocumentFor(r))
    \/ \E c \in CallIds : AwaitPromise(c)
    \/ \E c \in CallIds : ReturnCached(c)
    \/ Tick

KeySpec == Init /\ [][NextKey]_vars

----------------------------------------------------------------------------
(* OptionsSpec: caching-enabled requests to one URL that differ in their   *)
(* options, answered 200 with a document or with a body that is no JSON,   *)
(* 503, or not at all.                                                     *)

NextOptions ==
    \/ \E c \in CallIds, cacheTtlMs \in 1..(MaxTtl + 1), maxRetries \in SpecRetries,
          label \in Labels :
          fetchJSONWithRetry(c, "u1", NoInit, cacheTtlMs, maxRetries, label)
    \/ \E r \in CallIds : FetchThrows(r, NetworkDown)
    \/ \E r \in CallIds, status \in {200, 503} : \E body \in {DocumentFor(r), BadBody} :
          FetchResponds(r, status, body)
    \/ \E r \in CallIds : SleepDone(r)
    \/ \E c \in CallIds : AwaitPromise(c)
    \/ \E c \in CallIds : ReturnCached(c)
    \/ clearFetchCache
    \/ Tick

OptionsSpec == Init /\ [][NextOptions]_vars

----------------------------------------------------------------------------
(* retryDelayMs and parseRetryAfterMs                  (retryFetch.ts:35-57) *)

\* options.baseDelayMs and options.maxDelayMs, in milliseconds.
BaseDelays == {0, 400, 1000}
MaxDelays == {0, 1000, 30000}

\* Date.now() when the header is parsed, in milliseconds.
Clocks == {5000, 70000}

\* Values of res.headers.get('Retry-After').  A numeric text is kept as the
\* number it denotes, in units of 1/10000 second (so 15000 is "1.5" and 4 is
\* "0.0004"); an HTTP-date is kept as the time it denotes, in milliseconds.
NullHeader == [form |-> "null"]
NumericUnits == {0, 4, 5, 10000, 15000, 1200000, 0 - 10000, 0 - 5}
HttpDateTimes == {1000, 5000, 9000, 95000}
RetryAfterHeaders ==
    {NullHeader, [form |-> "empty"], [form |-> "text"]}
        \cup {[form |-> "number", units |-> q] : q \in NumericUnits}
        \cup {[form |-> "date", time |-> t] : t \in HttpDateTimes}

NaN == [nan |-> TRUE]
TimeValue(t) == [nan |-> FALSE, time |-> t]

\* Date.parse(value).  An HTTP-date parses to its time and a word to NaN.  A
\* text in no date format is left to the engine by the language standard:
\* for a negative number the engines answer NaN or, reading the digits as a
\* month of the year 2001, a time long past.
LegacyDate == TimeValue(0)
DateParse(value) ==
    CASE value.form = "date" -> {TimeValue(value.time)}
      [] value.form = "number" -> {NaN, LegacyDate}
      [] OTHER -> {NaN}

\* Math.round(seconds * 1000) for seconds >= 0 given in units of 1/10000 s.
RoundToMs(units) == (units + 5) \div 10

Min(a, b) == IF a <= b THEN a ELSE b
Max(a, b) == IF a >= b THEN a ELSE b

RECURSIVE Pow2(_)
Pow2(n) == IF n = 0 THEN 1 ELSE 2 * Pow2(n - 1)

Null == [null |-> TRUE]
Ms(ms) == [null |-> FALSE, ms |-> ms]

\* parseRetryAfterMs(value), with Date.now() and the answer of Date.parse.
parseRetryAfterMs(value, dateNow, retryAt) ==
    IF value.form \in {"null", "empty"} THEN Null
    ELSE IF value.form = "number" /\ value.units >= 0 THEN Ms(RoundToMs(value.units))
    ELSE IF retryAt.nan THEN Null
    ELSE Ms(Max(0, retryAt.time - dateNow))

\* A slip: the server's hint is capped by maxDelayMs like the exponential value.
retryDelayCapped(attempt, baseDelayMs, maxDelayMs, retryAfterHeader, dateNow, retryAt) ==
    LET retryAfter == parseRetryAfterMs(retryAfterHeader, dateNow, retryAt)
    IN  Min(Max(baseDelayMs * Pow2(attempt), IF retryAfter.null THEN 0 ELSE retryAfter.ms),
            maxDelayMs)

retryDelayMs(attempt, baseDelayMs, maxDelayMs, retryAfterHeader, dateNow, retryAt) ==
    LET exponential == Min(baseDelayMs * Pow2(attempt), maxDelayMs)
        retryAfter == parseRetryAfterMs(retryAfterHeader, dateNow, retryAt)
    IN  Max(exponential, IF retryAfter.null THEN 0 ELSE retryAfter.ms)

\* The arguments doFetch has at hand when an attempt has failed.
BackoffArgs ==
    [pc : {"failed"}, attempt : 0..MaxAttempt, baseDelayMs : BaseDelays,
     maxDelayMs : MaxDelays, dateNow : Clocks]

Slept(args, failure, header, delay) ==
    [pc |-> "sleep", attempt |-> args.attempt, baseDelayMs |-> args.baseDelayMs,
     maxDelayMs |-> args.maxDelayMs, dateNow |-> args.dateNow,
     failure |-> failure, header |-> header, delay |-> delay]

\* await sleep(retryDelayMs(attempt, baseDelayMs, maxDelayMs, null)) (retryFetch.ts:100)
SleepAfterThrow ==
    /\ backoff.pc = "failed"
    /\ \E retryAt \in DateParse(NullHeader) :
          backoff' = Slept(backoff, "thrown", NullHeader,
                           retryDelayMs(backoff.attempt, backoff.baseDelayMs,
                                        backoff.maxDelayMs, NullHeader,
                                        backoff.dateNow, retryAt))
    /\ UNCHANGED exceptBackoff

\* await sleep(retryDelayMs(attempt, baseDelayMs, maxDelayMs,
\*                          res.headers.get('Retry-After')))   (retryFetch.ts:114-121)
SleepAfterResponse(header) ==
    /\ backoff.pc = "failed"
    /\ \E retryAt \in DateParse(header) :
          backoff' = Slept(backoff, "response", header,
                           retryDelayMs(backoff.attempt, backoff.baseDelayMs,
                                        backoff.maxDelayMs, header,
                                        backoff.dateNow, retryAt))
    /\ UNCHANGED exceptBackoff

InitDelay ==
    /\ InitFetch
    /\ backoff \in BackoffArgs
    /\ forecast = NoForecast
    /\ consumer = NoConsumer
    /\ averaging = NoAveraging

NextDelay ==
    \/ SleepAfterThrow
    \/ \E header \in RetryAfterHeaders : SleepAfterResponse(header)

DelaySpec == InitDelay /\ [][NextDelay]_vars

----------------------------------------------------------------------------
(* fetchForecast and fetchMultiModelForecast        (openmeteo.ts:172-331) *)

\* The weather models a caller asks for, and the lists it passes.
Models == {"gfs", "ecmwf"}
ModelLists == {<<"gfs">>, <<"gfs", "ecmwf">>}

\* The arguments other than `models`: the place, the band and the window.
ForecastArgs == {"base", "top"}

\* The `time` array of a section of a response.
TimeArrays == {<<>>, <<"T00">>}

\* The `hourly` or `daily` section of a parsed response, as far as the code
\* looks at it: whether the section is there, its `time` array, whether
\* every array that mapHourly / mapDaily index is there ("all") or one is
\* missing ("partial"; under its plain name in a single-model response,
\* under the suffixed names in a combined one), and the models that have a
\* key `<field>_<model>`.
AbsentSection == [present |-> FALSE]
Sections ==
    {AbsentSection}
        \cup [present : {TRUE}, time : TimeArrays, arrays : {"all", "partial"},
              suffixed : SUBSET Models]

\* A parsed response body; `error` is the truthy error field of the
\* upstream's error shape ({error: true, reason: "..."}).
Payloads == [error : BOOLEAN, hourly : Sections, daily : Sections]

\* isForecastResponsePayload(data): not the error shape, and both sections
\* with every required array.
isForecastResponsePayload(data) ==
    /\ ~data.error
    /\ data.hourly.present /\ data.hourly.arrays = "all"
    /\ data.daily.present /\ data.daily.arrays = "all"

\* Errors fetchJSON rejects with.                        (openmeteo.ts:28-41)
FetchJSONErrors == {"Open-Meteo 400: Bad Request", "Failed to fetch"}

TypeError == MkError("TypeError")

\* What a request made with fetchJSON has settled to.
NotAsked == [state |-> "none"]
Asked(args) == [state |-> "pending", args |-> args]
Rejected(args, message) == [state |-> "rejected", args |-> args, message |-> message]
Resolved(args, data) == [state |-> "resolved", args |-> args, data |-> data]

BandForecast(args, hourly, daily) ==
    [kind |-> "value", args |-> args, hourly |-> hourly, daily |-> daily]

\* raw.time.map((t, i) => ... raw.precipitation[i] ...): one entry per time,
\* and a TypeError when the section or, with a time to map, an indexed array
\* is missing.  The result is the number of entries.   (openmeteo.ts:109-170)
MapThrows(raw) == ~raw.present \/ (raw.time # <<>> /\ raw.arrays = "partial")
MapLen(raw) == Len(raw.time)

\* A slip: a response is mapped although it has the error shape or lacks arrays.
fetchForecastResult(args, data) ==
    IF MapThrows(data.hourly) \/ MapThrows(data.daily) THEN TypeError
    ELSE BandForecast(args, MapLen(data.hourly), MapLen(data.daily))

\* One per-model series built by splitMultiModelResponse:
\* { time: data.hourly.time, ...h } with h = { time: [], <the model's arrays> }.
\* The spread comes last, so the series keeps h's empty `time`.
\*                                                    (openmeteo.ts:243-256)
EmptyTime == <<>>
ModelSeries(section, model) ==
    [present |-> TRUE, time |-> EmptyTime, arrays |-> section.arrays,
     suffixed |-> {model}]

\* splitMultiModelResponse(data, models): `suffixed in data.hourly` and
\* `suffixed in data.daily` throw a TypeError when the section is missing.
SplitThrows(data, models) ==
    Len(models) > 0 /\ (~data.hourly.present \/ ~data.daily.present)

RECURSIVE SplitSection(_, _)
SplitSection(section, models) ==
    IF models = <<>> THEN <<>>
    ELSE LET rest == SplitSection(section, Tail(models))
         IN  IF Head(models) \in section.suffixed
             THEN <<ModelSeries(section, Head(models))>> \o rest
             ELSE rest

\* averageHourlyArrays / averageDailyArrays on the series of the split, as
\* far as the orchestration goes: one series is returned as it is; several
\* are merged over the union of their times into a series with every array.
UnionOfTimes(series) ==
    IF \E i \in 1..Len(series) : series[i].time # <<>> THEN <<"T00">> ELSE <<>>
AverageThrows(series) ==
    Len(series) >= 2 /\ \E i \in 1..Len(series) :
        series[i].time # <<>> /\ series[i].arrays = "partial"
AverageArrays(series) ==
    IF Len(series) = 1 THEN series[1]
    ELSE [present |-> TRUE, time |-> UnionOfTimes(series), arrays |-> "all",
          suffixed |-> {}]

\* fetchMultiModelForecast after `data = await fetchJSON(url)` resolved:
\* "throw" (a TypeError leaves the function), "fallback" (fetchForecast is
\* called) or "merge".                                  (openmeteo.ts:310-330)
AfterCombined(data, models) ==
    IF SplitThrows(data, models) THEN "throw"
    ELSE IF Len(SplitSection(data.hourly, models)) = 0 THEN "fallback"
    ELSE "merge"

MergedResult(args, data, models) ==
    LET hourlyModels == SplitSection(data.hourly, models)
        dailyModels == SplitSection(data.daily, models)
    IN  IF AverageThrows(hourlyModels) \/ AverageThrows(dailyModels) THEN TypeError
        ELSE IF MapThrows(AverageArrays(hourlyModels)) THEN TypeError
        ELSE IF Len(dailyModels) = 0
             THEN BandForecast(args, MapLen(AverageArrays(hourlyModels)), 0)
        ELSE IF MapThrows(AverageArrays(dailyModels)) THEN TypeError
        ELSE BandForecast(args, MapLen(AverageArrays(hourlyModels)),
                          MapLen(AverageArrays(dailyModels)))

\* fetchForecast(...) is called: it awaits fetchJSON(url).  (openmeteo.ts:172-190)
fetchForecast(args) ==
    /\ forecast.pc = "idle"
    /\ forecast' = [pc |-> "single", entry |-> "fetchForecast", args |-> args,
                    models |-> <<>>, combined |-> NotAsked, single |-> Asked(args),
                    fallbacks |-> 0, outcome |-> Unsettled]
    /\ UNCHANGED exceptForecast

\* fetchMultiModelForecast(...) is called: it awaits fetchJSON(url).
\*                                                    (openmeteo.ts:279-303)
fetchMultiModelForecast(args, models) ==
    /\ forecast.pc = "idle"
    /\ forecast' = [pc |-> "combined", entry |-> "fetchMultiModelForecast",
                    args |-> args, models |-> models, combined |-> Asked(args),
                    single |-> NotAsked, fallbacks |-> 0, outcome |-> Unsettled]
    /\ UNCHANGED exceptForecast

\* The combined request fails: the catch block calls fetchForecast.
\*                                                    (openmeteo.ts:304-308)
CombinedRejects(message) ==
    /\ forecast.pc = "combined"
    /\ forecast' = [forecast EXCEPT !.pc = "single",
                                    !.combined = Rejected(forecast.args, message),
                                    !.single = Asked(forecast.args),
                                    !.fallbacks = @ + 1]
    /\ UNCHANGED exceptForecast

\* The combined request resolves with a parsed body.    (openmeteo.ts:310-330)
CombinedResolves(data) ==
    /\ forecast.pc = "combined"
    /\ LET next == AfterCombined(data, forecast.models)
           asked == [forecast EXCEPT !.combined = Resolved(forecast.args, data)]
       IN  forecast' =
              CASE next = "throw" ->
                      [asked EXCEPT !.pc = "done", !.outcome = TypeError]
                [] next = "fallback" ->
                      [asked EXCEPT !.pc = "single", !.single = Asked(forecast.args),
                                    !.fallbacks = @ + 1]
                [] next = "merge" ->
                      [asked EXCEPT !.pc = "done",
                                    !.outcome = MergedResult(forecast.args, data,
                                                             forecast.models)]
    /\ UNCHANGED exceptForecast

\* fetchForecast's request fails: fetchForecast rejects, and so does a
\* fetchMultiModelForecast that returned its promise.      (openmeteo.ts:190)
SingleRejects(message) ==
    /\ forecast.pc = "single"
    /\ forecast' = [forecast EXCEPT !.pc = "done",
                                    !.single = Rejected(forecast.single.args, message),
                                    !.outcome = MkError(message)]
    /\ UNCHANGED exceptForecast

\* fetchForecast's request resolves: the body is mapped.  (openmeteo.ts:190-197)
SingleResolves(data) ==
    /\ forecast.pc = "single"
    /\ forecast' = [forecast EXCEPT !.pc = "done",
                                    !.single = Resolved(forecast.single.args, data),
                                    !.outcome = fetchForecastResult(forecast.single.args,
                                                                    data)]
    /\ UNCHANGED exceptForecast

InitForecast ==
    /\ InitFetch
    /\ backoff = NoBackoff
    /\ forecast = NoForecast
    /\ consumer = NoConsumer
    /\ averaging = NoAveraging

NextForecast ==
    \/ \E args \in ForecastArgs : fetchForecast(args)
    \/ \E args \in ForecastArgs, models \in ModelLists :
          fetchMultiModelForecast(args, models)
    \/ \E message \in FetchJSONErrors : CombinedRejects(message)
    \/ \E data \in Payloads : CombinedResolves(data)
    \/ \E message \in FetchJSONErrors : SingleRejects(message)
    \/ \E data \in Payloads : SingleResolves(data)

ForecastSpec == InitForecast /\ [][NextForecast]_vars

----------------------------------------------------------------------------
(* The components that load weather data: useForecast and useHistorical    *)
(* (hooks/useWeather.ts) and FavoriteCard.  A component starts a load in   *)
(* its effect, which runs after mounting and again when the resort or the  *)
(* timezone changes; React runs the effect's cleanup, if it returned one,  *)
(* before the next run and at unmounting.                                  *)

Kinds == {"useForecast", "useHistorical", "FavoriteCard"}

\* The resort (and timezone) the component is rendered for.
Resorts == {"r1", "r2"}
Country(resort) == IF resort = "r1" THEN "US" ELSE "CA"

\* The hooks take `resort: Resort | undefined`.
Undefined == "undefined"

LoadIds == 1..MaxLoads

\* The requests one load makes at once: the three bands under Promise.all,
\* the history, the two windows under Promise.allSettled.
Fetches(kind) ==
    CASE kind = "useForecast" -> {"base", "mid", "top"}
      [] kind = "useHistorical" -> {"history"}
      [] kind = "FavoriteCard" -> {"future", "past"}

\* One run of load(): where it is, the resort it was started for, the
\* `cancelled` flag of its closure, its requests, and as history whether
\* the component has given it up (abandoned) and what it passed to the
\* state setter (delivered, outcome).
NoLoad ==
    [pc |-> "none", resort |-> "r1", cancelled |-> FALSE, abandoned |-> FALSE,
     fetches |-> <<>>, delivered |-> {}, outcome |-> "none"]

NoData == [present |-> FALSE]
Data(resort, load, parts) ==
    [present |-> TRUE, resort |-> resort, load |-> load, parts |-> parts]
NoError == "null"
LoadError == "Failed to fetch"

\* useState: forecast / data / summary, loading and error.
InitialState(kind) ==
    [data |-> NoData, loading |-> (kind = "FavoriteCard"), error |-> NoError]

\* A state setter; React ignores it once the component is unmounted.
SetState(c, state) == IF c.mounted THEN [c EXCEPT !.state = state] ELSE c

Fulfilled(load) == {f \in DOMAIN load.fetches : load.fetches[f] = "fulfilled"}
AllSettled(load) ==
    \A f \in DOMAIN load.fetches : load.fetches[f] \in {"fulfilled", "rejected"}

FreeLoads == {l \in LoadIds : consumer.loads[l].pc = "none"}
FreeLoad == CHOOSE l \in FreeLoads : \A k \in FreeLoads : l <= k

\* The effect's cleanup.  useForecast returns none; useHistorical sets
\* `cancelled`; FavoriteCard sets `cancelled` and clears its timer.
Cleanup(c) ==
    [c EXCEPT !.loads =
        [l \in LoadIds |->
            IF c.loads[l].pc = "none" THEN c.loads[l]
            ELSE [c.loads[l] EXCEPT
                     !.abandoned = TRUE,
                     !.cancelled = (c.kind # "useForecast"),
                     !.pc = IF @ = "timer" THEN "cleared" ELSE @]]]

\* The effect: load() of useForecast and the effect body of useHistorical
\* set loading, clear the error and start the requests; FavoriteCard arms
\* a timer that will call load().
StartLoad(c, l) ==
    IF c.kind = "FavoriteCard"
    THEN [c EXCEPT !.loads[l] =
             [NoLoad EXCEPT !.pc = "timer", !.resort = c.resort,
                            !.fetches = [f \in Fetches(c.kind) |-> "none"]]]
    ELSE [SetState(c, [c.state EXCEPT !.loading = TRUE, !.error = NoError])
             EXCEPT !.loads[l] =
                 [NoLoad EXCEPT !.pc = "fetching", !.resort = c.resort,
                                !.fetches = [f \in Fetches(c.kind) |-> "pending"]]]

\* load() has run to its end.
Done(c, l, delivered, outcome) ==
    [c EXCEPT !.loads[l].pc = "done", !.loads[l].delivered = delivered,
              !.loads[l].outcome = outcome]

\* useForecast after a band settled: `await Promise.all([...])` rejects with
\* the first rejection and fulfils once every band has; then setForecast or
\* setError, and setLoading(false).                     (useWeather.ts:25-42)
ForecastLoad(c, l) ==
    LET load == c.loads[l]
    IN  IF load.pc # "fetching" THEN c
        ELSE IF \E f \in DOMAIN load.fetches : load.fetches[f] = "rejected"
        THEN Done(SetState(c, [c.state EXCEPT !.error = LoadError, !.loading = FALSE]),
                  l, {}, "error")
        ELSE IF AllSettled(load)
        THEN Done(SetState(c, [c.state EXCEPT
                                  !.data = Data(load.resort, l, Fulfilled(load)),
                                  !.loading = FALSE]),
                  l, Fulfilled(load), "data")
        ELSE c

\* useHistorical's then / catch / finally, each guarded by `cancelled`.
\*                                                      (useWeather.ts:84-93)
HistoricalLoad(c, l) ==
    LET load == c.loads[l]
    IN  IF load.cancelled THEN Done(c, l, {}, "dropped")
        ELSE IF Fulfilled(load) # {}
        THEN Done(SetState(c, [c.state EXCEPT
                                  !.data = Data(load.resort, l, Fulfilled(load)),
                                  !.loading = FALSE]),
                  l, Fulfilled(load), "data")
        ELSE Done(SetState(c, [c.state EXCEPT !.error = LoadError, !.loading = FALSE]),
                  l, {}, "error")

\* FavoriteCard's load() from `if (cancelled) return` on: setSummary with
\* what was fulfilled, and the guarded setLoading(false).    (part_009:100-131)
FinishCard(c, l) ==
    LET load == c.loads[l]
    IN  IF load.cancelled THEN Done(c, l, {}, "dropped")
        ELSE Done(SetState(c, [c.state EXCEPT
                                  !.data = Data(load.resort, l, Fulfilled(load)),
                                  !.loading = FALSE]),
                  l, Fulfilled(load), "data")

\* FavoriteCard after a window settled: Promise.allSettled fulfils once both
\* have; with neither fulfilled load() throws and fails silently; for a US
\* resort it awaits the NWS request next.                     (part_009:49-98)
CardLoad(c, l) ==
    LET load == c.loads[l]
    IN  IF load.pc # "fetching" \/ ~AllSettled(load) THEN c
        ELSE IF Fulfilled(load) = {}
        THEN IF load.cancelled THEN Done(c, l, {}, "dropped")
             ELSE Done(SetState(c, [c.state EXCEPT !.loading = FALSE]), l, {}, "silent")
        ELSE IF Country(load.resort) = "US"
        THEN [c EXCEPT !.loads[l].pc = "nws"]
        ELSE FinishCard(c, l)

Resume(c, l) ==
    CASE c.kind = "useForecast" -> ForecastLoad(c, l)
      [] c.kind = "useHistorical" -> HistoricalLoad(c, l)
      [] c.kind = "FavoriteCard" -> CardLoad(c, l)

\* The component is mounted and its effect runs.
Mount(kind, resort) ==
    /\ consumer = NoConsumer
    /\ consumer' = StartLoad([kind |-> kind, mounted |-> TRUE, resort |-> resort,
                              state |-> InitialState(kind),
                              loads |-> [l \in LoadIds |-> NoLoad]], 1)
    /\ UNCHANGED exceptConsumer

\* The resort or the timezone changes: cleanup, then the effect again.
ChangeResort(resort) ==
    /\ consumer.kind # "none"
    /\ consumer.mounted
    /\ resort # consumer.resort
    /\ FreeLoads # {}
    /\ consumer' = StartLoad([Cleanup(consumer) EXCEPT !.resort = resort], FreeLoad)
    /\ UNCHANGED exceptConsumer

Unmount ==
    /\ consumer.kind # "none"
    /\ consumer.mounted
    /\ consumer' = [Cleanup(consumer) EXCEPT !.mounted = FALSE]
    /\ UNCHANGED exceptConsumer

\* useForecast hands load() out as `refetch`.              (useWeather.ts:49)
refetch ==
    /\ consumer.kind = "useForecast"
    /\ consumer.mounted
    /\ consumer.resort # Undefined
    /\ FreeLoads # {}
    /\ consumer' = StartLoad(consumer, FreeLoad)
    /\ UNCHANGED exceptConsumer

\* FavoriteCard's timer fires: load() sets loading and starts the requests.
\*                                                        (part_009:44-70,134)
TimerFires(l) ==
    /\ consumer.kind = "FavoriteCard"
    /\ consumer.loads[l].pc = "timer"
    /\ consumer' = [SetState(consumer, [consumer.state EXCEPT !.loading = TRUE])
                       EXCEPT !.loads[l].pc = "fetching",
                              !.loads[l].fetches = [f \in Fetches(consumer.kind) |-> "pending"]]
    /\ UNCHANGED exceptConsumer

\* One request of a load settles, and the load resumes if that settles the
\* promise it awaits.
FetchSettles(l, f, result) ==
    /\ consumer.kind # "none"
    /\ f \in DOMAIN consumer.loads[l].fetches
    /\ consumer.loads[l].fetches[f] = "pending"
    /\ consumer' = Resume([consumer EXCEPT !.loads[l].fetches[f] = result], l)
    /\ UNCHANGED exceptConsumer

\* FavoriteCard's NWS request settles; a failure of it is ignored.
\*                                                           (part_009:82-98)
NwsSettles(l) ==
    /\ consumer.kind = "FavoriteCard"
    /\ consumer.loads[l].pc = "nws"
    /\ consumer' = FinishCard(consumer, l)
    /\ UNCHANGED exceptConsumer

InitConsumer ==
    /\ InitFetch
    /\ backoff = NoBackoff
    /\ forecast = NoForecast
    /\ consumer = NoConsumer
    /\ averaging = NoAveraging

NextConsumer ==
    \/ \E kind \in Kinds, resort \in Resorts : Mount(kind, resort)
    \/ \E resort \in Resorts : ChangeResort(resort)
    \/ Unmount
    \/ refetch
    \/ \E l \in LoadIds : TimerFires(l)
    \/ \E l \in LoadIds, f \in {"base", "mid", "top", "history", "future", "past"},
          result \in {"fulfilled", "rejected"} : FetchSettles(l, f, result)
    \/ \E l \in LoadIds : NwsSettles(l)

ConsumerSpec == InitConsumer /\ [][NextConsumer]_vars

----------------------------------------------------------------------------
(* LoadingSpec: useForecast or useHistorical under changes of the resort,  *)
(* to another one or to undefined, where every request that was started    *)
(* settles in the end.                                                     *)

\* The resort becomes undefined: cleanup, then the effect again, which
\* returns at `if (!resort) return`.                   (useWeather.ts:22, 71)
ResortUnset ==
    /\ consumer.kind \in {"useForecast", "useHistorical"}
    /\ consumer.mounted
    /\ consumer.resort # Undefined
    /\ consumer' = [Cleanup(consumer) EXCEPT !.resort = Undefined]
    /\ UNCHANGED exceptConsumer

NextLoading ==
    \/ \E kind \in {"useForecast", "useHistorical"}, resort \in Resorts : Mount(kind, resort)
    \/ \E resort \in Resorts : ChangeResort(resort)
    \/ ResortUnset
    \/ refetch
    \/ \E l \in LoadIds, f \in {"base", "mid", "top", "history"},
          result \in {"fulfilled", "rejected"} : FetchSettles(l, f, result)

\* Every request that was started settles.
EveryFetchSettles ==
    \A l \in LoadIds, f \in {"base", "mid", "top", "history"} :
        WF_vars(\E result \in {"fulfilled", "rejected"} : FetchSettles(l, f, result))

LoadingSpec == InitConsumer /\ [][NextLoading]_vars /\ EveryFetchSettles

----------------------------------------------------------------------------
(* Multi-model averaging                               (utils/modelAverage.ts) *)
(*                                                                         *)
(* A series is a record of parallel arrays.  Numbers are counted in        *)
(* thousandths, so that rounding to two decimals is a change of value;     *)
(* timestamps are ISO strings of one format, which sort() orders as time   *)
(* does, and are numbered in that order.  Of the fields that the code      *)
(* treats alike one is modelled: relative_humidity_2m stands for the       *)
(* hourly fields averaged by mean with default 0, precipitation for rain   *)
(* and snowfall, uv_index_max for the daily fields averaged by mean with   *)
(* default 0, precipitation_sum for rain_sum and snowfall_sum.             *)

Number(v) == [null |-> FALSE, value |-> v]

HourlyFields ==
    {"temperature_2m", "apparent_temperature", "relative_humidity_2m",
     "precipitation", "weather_code"}
DailyFields ==
    {"weather_code", "temperature_2m_max", "temperature_2m_min",
     "apparent_temperature_max", "apparent_temperature_min", "uv_index_max",
     "precipitation_sum"}
FieldsOf(kind) == IF kind = "hourly" THEN HourlyFields ELSE DailyFields

Abs(n) == IF n < 0 THEN 0 - n ELSE n

RECURSIVE Sum(_)
Sum(values) == IF values = <<>> THEN 0 ELSE Head(values) + Sum(Tail(values))

\* A number as the quotient num / den of the arithmetic that produced it.
Quotient(num, den) == [num |-> num, den |-> den]

\* mean(values)                                        (modelAverage.ts:17-21)
mean(values) ==
    IF Len(values) = 0 THEN Quotient(0, 1) ELSE Quotient(Sum(values), Len(values))

\* A slip: the arithmetic mean where the median is meant.
medianByMean(values) == mean(values)

\* median(values)                                      (modelAverage.ts:24-31)
median(values) ==
    IF Len(values) = 0 THEN Quotient(0, 1)
    ELSE LET sorted == SortSeq(values, LAMBDA a, b : a < b)
             mid == Len(sorted) \div 2
         IN  IF Len(sorted) % 2 = 0
             THEN Quotient(sorted[mid] + sorted[mid + 1], 2)
             ELSE Quotient(sorted[mid + 1], 1)

\* r2(n) = +n.toFixed(2): the nearest multiple of 0.01.  Half-way between
\* two of them the binary value of n decides, which the quotient does not
\* tell: either neighbour.                            (modelAverage.ts:34-36)
r2(n) ==
    LET down == ((n.num \div n.den) \div 10) * 10
    IN  {q \in {down, down + 10} : 2 * Abs(q * n.den - n.num) <= 10 * n.den}

\* mode(values): the value whose running count first exceeds every count
\* seen before.                                      (modelAverage.ts:318-332)
RECURSIVE ModeLoop(_, _)
ModeLoop(values, i) ==
    IF i = 0 THEN [best |-> values[1], bestCount |-> 0]
    ELSE LET before == ModeLoop(values, i - 1)
             c == Cardinality({j \in 1..i : values[j] = values[i]})
         IN  IF c > before.bestCount THEN [best |-> values[i], bestCount |-> c]
             ELSE before

mode(values) == IF Len(values) = 0 THEN 0 ELSE ModeLoop(values, Len(values)).best

\* modelTimeIndex[m].get(t): the row of timestamp t in a series, the last
\* one if the series repeats it; 0 for undefined.     (modelAverage.ts:93-100)
RowIndex(model, t) ==
    LET rows == {i \in 1..Len(model.time) : model.time[i] = t}
    IN  IF rows = {} THEN 0 ELSE CHOOSE i \in rows : \A j \in rows : j <= i

\* The values pushed for one field at timestamp t: in model order, each
\* model that has the timestamp and a value != null.  (modelAverage.ts:142-164)
HasValue(model, t, field) ==
    /\ RowIndex(model, t) # 0
    /\ RowIndex(model, t) \in DOMAIN model[field]
    /\ ~model[field][RowIndex(model, t)].null

RECURSIVE Collect(_, _, _)
Collect(models, t, field) ==
    IF models = <<>> THEN <<>>
    ELSE LET model == Head(models)
             rest == Collect(Tail(models), t, field)
         IN  IF HasValue(model, t, field)
             THEN <<model[field][RowIndex(model, t)].value>> \o rest
             ELSE rest

\* [...timeSet].sort()                                  (modelAverage.ts:103)
TimeSet(models) ==
    UNION {{models[m].time[i] : i \in 1..Len(models[m].time)} : m \in 1..Len(models)}

\* A slip: the timestamps in descending order.
RECURSIVE SortedDescending(_)
SortedDescending(set) ==
    IF set = {} THEN <<>>
    ELSE LET most == CHOOSE t \in set : \A u \in set : t >= u
         IN  <<most>> \o SortedDescending(set \ {most})

RECURSIVE Sorted(_)
Sorted(set) ==
    IF set = {} THEN <<>>
    ELSE LET least == CHOOSE t \in set : \A u \in set : t <= u
         IN  <<least>> \o Sorted(set \ {least})

\* The rows that can be pushed for timestamp t.  Where a default repeats the
\* expression of another field it is the number that field got.
\*                                                   (modelAverage.ts:169-181)
HourlyRows(models, t) ==
    LET temps == Collect(models, t, "temperature_2m")
        apparents == Collect(models, t, "apparent_temperature")
        humidities == Collect(models, t, "relative_humidity_2m")
        precips == Collect(models, t, "precipitation")
        wcodes == Collect(models, t, "weather_code")
    IN  UNION {
          {[temperature_2m |-> temperature,
            apparent_temperature |-> apparent,
            relative_humidity_2m |-> humidity,
            precipitation |-> precip,
            weather_code |-> IF Len(wcodes) > 0 THEN mode(wcodes) ELSE 0] :
              apparent \in IF Len(apparents) > 0 THEN r2(mean(apparents))
                           ELSE {temperature},
              humidity \in IF Len(humidities) > 0 THEN r2(mean(humidities)) ELSE {0},
              precip \in IF Len(precips) > 0 THEN r2(median(precips)) ELSE {0}} :
          temperature \in r2(mean(temps))}

\* The rows that can be pushed for day t.              (modelAverage.ts:266-278)
DailyRows(models, t) ==
    LET wcodes == Collect(models, t, "weather_code")
        tmaxs == Collect(models, t, "temperature_2m_max")
        tmins == Collect(models, t, "temperature_2m_min")
        atMaxs == Collect(models, t, "apparent_temperature_max")
        atMins == Collect(models, t, "apparent_temperature_min")
        uvs == Collect(models, t, "uv_index_max")
        precipSums == Collect(models, t, "precipitation_sum")
    IN  UNION { UNION {
          {[weather_code |-> IF Len(wcodes) > 0 THEN mode(wcodes) ELSE 0,
            temperature_2m_max |-> tmax,
            temperature_2m_min |-> tmin,
            apparent_temperature_max |-> atMax,
            apparent_temperature_min |-> atMin,
            uv_index_max |-> uv,
            precipitation_sum |-> precipSum] :
              atMax \in IF Len(atMaxs) > 0 THEN r2(mean(atMaxs)) ELSE {tmax},
              atMin \in IF Len(atMins) > 0 THEN r2(mean(atMins)) ELSE {tmin},
              uv \in IF Len(uvs) > 0 THEN r2(mean(uvs)) ELSE {0},
              precipSum \in IF Len(precipSums) > 0 THEN r2(median(precipSums))
                            ELSE {0}} :
          tmin \in IF Len(tmins) > 0 THEN r2(mean(tmins)) ELSE {tmax}} :
          tmax \in r2(mean(tmaxs))}

\* `out` before the loop, and after a push.            (modelAverage.ts:109-124)
EmptySeries(fields) == [f \in fields \cup {"time"} |-> <<>>]

\* A slip: a weather code of 0 is not pushed.
PushUnlessZero(out, t, row) ==
    [f \in DOMAIN out |->
        IF f = "time" THEN <<t>> \o out.time
        ELSE IF f = "weather_code" /\ row[f] = 0 THEN out[f]
        ELSE <<Number(row[f])>> \o out[f]]

Push(out, t, row) ==
    [f \in DOMAIN out |->
        IF f = "time" THEN <<t>> \o out.time ELSE <<Number(row[f])>> \o out[f]]

\* The loop over the sorted timestamps: a timestamp without a value of the
\* primary field is skipped.                     (modelAverage.ts:126-187,231-279)
RECURSIVE Merge(_, _, _)
Merge(kind, models, times) ==
    IF times = <<>> THEN {EmptySeries(FieldsOf(kind))}
    ELSE LET t == Head(times)
             rest == Merge(kind, models, Tail(times))
             primary == IF kind = "hourly" THEN "temperature_2m"
                        ELSE "temperature_2m_max"
         IN  IF Len(Collect(models, t, primary)) = 0 THEN rest
             ELSE {Push(out, t, row) :
                      out \in rest,
                      row \in IF kind = "hourly" THEN HourlyRows(models, t)
                              ELSE DailyRows(models, t)}

\* A slip: a single series is merged like several.
averageAlways(kind, models) ==
    IF Len(models) = 0 THEN {MkError("No model data to average")}
    ELSE Merge(kind, models, Sorted(TimeSet(models)))

\* averageHourlyArrays(models) and averageDailyArrays(models): what the
\* call can return or throw.                     (modelAverage.ts:87-190,199-282)
averageArrays(kind, models) ==
    IF Len(models) = 0 THEN {MkError("No model data to average")}
    ELSE IF Len(models) = 1 THEN {models[1]}
    ELSE Merge(kind, models, Sorted(TimeSet(models)))

\* The rows of the series that are averaged.  Temperatures, humidity and
\* the UV index as the upstream reports them; "D" has a temperature with a
\* third decimal and no other field.
HourlyPatterns ==
    [A |-> [temperature_2m |-> Number(1500), apparent_temperature |-> Number(1000),
            relative_humidity_2m |-> Number(70000), precipitation |-> Number(70),
            weather_code |-> Number(3)],
     B |-> [temperature_2m |-> Number(0 - 2000), apparent_temperature |-> Number(0 - 3000),
            relative_humidity_2m |-> Number(71000), precipitation |-> Number(140),
            weather_code |-> Number(73)],
     C |-> [temperature_2m |-> Null, apparent_temperature |-> Null,
            relative_humidity_2m |-> Number(60500), precipitation |-> Number(200),
            weather_code |-> Number(73)],
     D |-> [temperature_2m |-> Number(1234), apparent_temperature |-> Null,
            relative_humidity_2m |-> Null, precipitation |-> Null,
            weather_code |-> Null]]

DailyPatterns ==
    [A |-> [weather_code |-> Number(3), temperature_2m_max |-> Number(1500),
            temperature_2m_min |-> Number(0 - 500),
            apparent_temperature_max |-> Number(1000),
            apparent_temperature_min |-> Number(0 - 1000),
            uv_index_max |-> Number(3000), precipitation_sum |-> Number(70)],
     B |-> [weather_code |-> Number(73), temperature_2m_max |-> Number(0 - 2000),
            temperature_2m_min |-> Number(0 - 4000),
            apparent_temperature_max |-> Number(0 - 3000),
            apparent_temperature_min |-> Number(0 - 5000),
            uv_index_max |-> Number(2000), precipitation_sum |-> Number(140)],
     C |-> [weather_code |-> Number(73), temperature_2m_max |-> Null,
            temperature_2m_min |-> Number(0 - 4000),
            apparent_temperature_max |-> Null,
            apparent_temperature_min |-> Null,
            uv_index_max |-> Number(2000), precipitation_sum |-> Number(200)],
     D |-> [weather_code |-> Null, temperature_2m_max |-> Number(1234),
            temperature_2m_min |-> Null, apparent_temperature_max |-> Null,
            apparent_temperature_min |-> Null, uv_index_max |-> Null,
            precipitation_sum |-> Null]]

PatternsOf(kind) == IF kind = "hourly" THEN HourlyPatterns ELSE DailyPatterns

\* The series with the given timestamps and rows.
Series(kind, times, rows) ==
    [f \in FieldsOf(kind) \cup {"time"} |->
        IF f = "time" THEN times
        ELSE [i \in 1..Len(times) |-> PatternsOf(kind)[rows[i]][f]]]

\* The series a model can deliver over two timestamps (ascending, as the
\* upstream sends them), and over one.
WideSeries(kind) ==
    {Series(kind, <<>>, <<>>)}
        \cup {Series(kind, <<0>>, <<a>>) : a \in {"A", "B", "C", "D"}}
        \cup {Series(kind, <<1>>, <<b>>) : b \in {"A", "C"}}
        \cup {Series(kind, <<0, 1>>, <<a, b>>) : a \in {"A", "B", "C", "D"}, b \in {"A", "C"}}
NarrowSeries(kind) == {Series(kind, <<0>>, <<a>>) : a \in {"A", "B"}}

\* The call of averageHourlyArrays or averageDailyArrays with `models`.
Called(kind, models) ==
    [pc |-> "called", kind |-> kind, models |-> models, out |-> Unsettled]

averageHourlyArrays ==
    /\ averaging.pc = "called"
    /\ averaging.kind = "hourly"
    /\ \E out \in averageArrays("hourly", averaging.models) :
          averaging' = [averaging EXCEPT !.pc = "returned", !.out = out]
    /\ UNCHANGED exceptAveraging

averageDailyArrays ==
    /\ averaging.pc = "called"
    /\ averaging.kind = "daily"
    /\ \E out \in averageArrays("daily", averaging.models) :
          averaging' = [averaging EXCEPT !.pc = "returned", !.out = out]
    /\ UNCHANGED exceptAveraging

InitAverage ==
    /\ InitFetch
    /\ backoff = NoBackoff
    /\ forecast = NoForecast
    /\ consumer = NoConsumer
    /\ \E kind \in {"hourly", "daily"} :
          \/ \E n \in 0..MaxModels : \E models \in [1..n -> WideSeries(kind)] :
                averaging = Called(kind, models)
          \/ \E n \in 0..MaxContributors : \E models \in [1..n -> NarrowSeries(kind)] :
                averaging = Called(kind, models)

NextAverage ==
    \/ averageHourlyArrays
    \/ averageDailyArrays

AverageSpec == InitAverage /\ [][NextAverage]_vars

----------------------------------------------------------------------------
(* blendWithNWS of src/src/utils/modelAverage.ts: the model's daily        *)
(* snowfall blended with the snowfall of an external source.  Snowfall is  *)
(* in thousandths, the weight in tenths.                                   *)

Dates == {"d1", "d2", "d3"}
SnowValues == {10000, 1234}
NwsValues == {20000, 2500}
DefaultWeight == 3
Weights == {DefaultWeight, 5}

\* modelSnowDays: days of distinct dates, as the daily roll-up gives them.
ModelSnowDays ==
    {<<>>}
        \cup {<<[date |-> "d1", snowfallSum |-> a]>> : a \in SnowValues}
        \cup {<<[date |-> "d1", snowfallSum |-> a], [date |-> "d2", snowfallSum |-> b]>> :
                 a \in SnowValues, b \in SnowValues}
        \cup {<<[date |-> "d2", snowfallSum |-> a], [date |-> "d1", snowfallSum |-> b]>> :
                 a \in SnowValues, b \in SnowValues}

\* nwsSnowMap: a Map from some dates to the external snowfall.
NwsSnowMaps == UNION {[dates -> NwsValues] : dates \in SUBSET Dates}

\* A slip: the two weights exchanged.
BlendedSwapped(snowfallSum, nwsValue, nwsWeight) ==
    r2(Quotient(nwsWeight * snowfallSum + (10 - nwsWeight) * nwsValue, 10))

\* r2(modelWeight * day.snowfallSum + nwsWeight * nwsValue), with
\* modelWeight = 1 - nwsWeight.                  (modelAverage.ts:300, 304)
Blended(snowfallSum, nwsValue, nwsWeight) ==
    r2(Quotient((10 - nwsWeight) * snowfallSum + nwsWeight * nwsValue, 10))

\* The loop over modelSnowDays; result.set overwrites. (modelAverage.ts:301-310)
RECURSIVE BlendLoop(_, _, _, _)
BlendLoop(days, nwsSnowMap, nwsWeight, result) ==
    IF days = <<>> THEN {result}
    ELSE LET day == Head(days)
             values == IF day.date \in DOMAIN nwsSnowMap
                       THEN Blended(day.snowfallSum, nwsSnowMap[day.date], nwsWeight)
                       ELSE {day.snowfallSum}
         IN  UNION {BlendLoop(Tail(days), nwsSnowMap, nwsWeight,
                              [d \in DOMAIN result \cup {day.date} |->
                                  IF d = day.date THEN v ELSE result[d]]) :
                       v \in values}

\* blendWithNWS(modelSnowDays, nwsSnowMap, nwsWeight = 0.3)
\*                                                    (modelAverage.ts:294-313)
blendWithNWS(modelSnowDays, nwsSnowMap, nwsWeight) ==
    BlendLoop(modelSnowDays, nwsSnowMap, nwsWeight, <<>>)

Blend ==
    /\ averaging.pc = "called"
    /\ averaging.kind = "blend"
    /\ \E out \in blendWithNWS(averaging.modelSnowDays, averaging.nwsSnowMap,
                               averaging.nwsWeight) :
          averaging' = [averaging EXCEPT !.pc = "returned", !.out = out]
    /\ UNCHANGED exceptAveraging

InitBlend ==
    /\ InitFetch
    /\ backoff = NoBackoff
    /\ forecast = NoForecast
    /\ consumer = NoConsumer
    /\ \E days \in ModelSnowDays, nws \in NwsSnowMaps, w \in Weights :
          averaging = [pc |-> "called", kind |-> "blend", modelSnowDays |-> days,
                       nwsSnowMap |-> nws, nwsWeight |-> w, out |-> Unsettled]

NextBlend ==
    \/ Blend

BlendSpec == InitBlend /\ [][NextBlend]_vars

----------------------------------------------------------------------------
(* mapDaily of src/src/data/openmeteo.ts: the daily roll-up.  A string is  *)
(* a sequence of tokens, a date two of them and an hourly timestamp the    *)
(* date followed by "T" and the hour.  Amounts are in thousandths.         *)

DayA == <<"02", "25">>
DayB == <<"02", "26">>
HourlyTimes == <<DayA \o <<"T", "00">>, DayA \o <<"T", "23">>, DayB \o <<"T", "00">>>>
DailyTimes == {<<>>, <<DayA>>, <<DayB>>, <<DayA, DayB>>}
HourlySnowfall == {0, 1500}
HourlyRain == {0, 700}
ProviderSums == {0, 5000}

\* s.startsWith(prefix)
startsWith(s, prefix) == Len(prefix) <= Len(s) /\ SubSeq(s, 1, Len(prefix)) = prefix

\* HourlyMetrics[] in the order of time: any of HourlyTimes, with corrected
\* snowfall and rain.
RECURSIVE HourlySeries(_)
HourlySeries(k) ==
    IF k > Len(HourlyTimes) THEN {<<>>}
    ELSE LET rest == HourlySeries(k + 1)
         IN  rest \cup {<<[time |-> HourlyTimes[k], snowfall |-> sn, rain |-> rn]>> \o r :
                           sn \in HourlySnowfall, rn \in HourlyRain, r \in rest}

\* The `daily` section of a response, as far as mapDaily's sums go.
RawDaily(time, precipitation, rain, snowfall) ==
    [time |-> time,
     precipitation_sum |-> [i \in DOMAIN time |-> precipitation],
     rain_sum |-> [i \in DOMAIN time |-> rain],
     snowfall_sum |-> [i \in DOMAIN time |-> snowfall]]

\* hourly.filter((h) => h.time.startsWith(t))               (openmeteo.ts:148)
dayHourly(hourly, t) == SelectSeq(hourly, LAMBDA h : startsWith(h.time, t))

\* array.map((h) => h[field])
RECURSIVE Pluck(_, _)
Pluck(array, field) ==
    IF array = <<>> THEN <<>> ELSE <<Head(array)[field]>> \o Pluck(Tail(array), field)

\* recalcDailyFromHourly(hourlySnowfall, hourlyRain) of utils/snowRecalc:
\* the sums of the two arrays.
recalcDailyFromHourly(hourlySnowfall, hourlyRain) ==
    [snowfallSum |-> Sum(hourlySnowfall), rainSum |-> Sum(hourlyRain)]

\* A slip: the provider's daily sums where the recomputed ones are meant.
mapDailyProviderSums(raw, hourly) ==
    [i \in DOMAIN raw.time |->
        [date |-> raw.time[i],
         precipitationSum |-> raw.precipitation_sum[i],
         rainSum |-> raw.rain_sum[i],
         snowfallSum |-> raw.snowfall_sum[i]]]

\* mapDaily(raw, hourly)                                (openmeteo.ts:142-170)
mapDaily(raw, hourly) ==
    [i \in DOMAIN raw.time |->
        LET sums == recalcDailyFromHourly(Pluck(dayHourly(hourly, raw.time[i]), "snowfall"),
                                          Pluck(dayHourly(hourly, raw.time[i]), "rain"))
        IN  [date |-> raw.time[i],
             precipitationSum |-> raw.precipitation_sum[i],
             rainSum |-> sums.rainSum,
             snowfallSum |-> sums.snowfallSum]]

MapDaily ==
    /\ forecast.pc = "mapDaily"
    /\ forecast' = [forecast EXCEPT !.pc = "mapped",
                                    !.daily = mapDaily(forecast.raw, forecast.hourly)]
    /\ UNCHANGED exceptForecast

InitRollup ==
    /\ InitFetch
    /\ backoff = NoBackoff
    /\ consumer = NoConsumer
    /\ averaging = NoAveraging
    /\ \E time \in DailyTimes, hourly \in HourlySeries(1),
          p \in ProviderSums, r \in ProviderSums, sn \in ProviderSums :
          forecast = [pc |-> "mapDaily", raw |-> RawDaily(time, p, r, sn),
                      hourly |-> hourly, daily |-> Unsettled]

NextRollup ==
    \/ MapDaily

RollupSpec == InitRollup /\ [][NextRollup]_vars

----------------------------------------------------------------------------
(* meanAngle of src/src/utils/modelAverage.ts: the merged wind direction.  *)
(* Directions are in whole degrees, as the upstream sends them; angles     *)
(* computed from them are in millionths of a degree, the rounded result in *)
(* thousandths as the other merged values.                                 *)

Directions == {2, 10, 350, 359}
FullCircle == 360000000

\* windDirs: the directions of up to three contributing models.
WindDirs == UNION {[1..n -> Directions] : n \in 0..3}

\* (Math.atan2(sinSum / n, cosSum / n) * 180) / Math.PI for the sines and
\* cosines of the directions summed, which do not depend on their order:
\* the value to the nearest millionth, by the directions in ascending order.
\* Where the sum points along 0 the code gets a value within 3e-14 of it.
\*                                                    (modelAverage.ts:340-347)
Atan2Degrees ==
    (<<2>> :> 2000000) @@ (<<10>> :> 10000000) @@ (<<350>> :> -10000000)
        @@ (<<359>> :> -1000000) @@ (<<2, 2>> :> 2000000) @@ (<<2, 10>> :> 6000000)
        @@ (<<2, 350>> :> -4000000) @@ (<<2, 359>> :> 500000) @@ (<<10, 10>> :> 10000000)
        @@ (<<10, 350>> :> 0) @@ (<<10, 359>> :> 4500000) @@ (<<350, 350>> :> -10000000)
        @@ (<<350, 359>> :> -5500000) @@ (<<359, 359>> :> -1000000) @@ (<<2, 2, 2>> :> 2000000)
        @@ (<<2, 2, 10>> :> 4664738) @@ (<<2, 2, 350>> :> -1993478) @@ (<<2, 2, 359>> :> 1000102)
        @@ (<<2, 10, 10>> :> 7335262) @@ (<<2, 10, 350>> :> 673458) @@ (<<2, 10, 359>> :> 3664160)
        @@ (<<2, 350, 350>> :> -6006522) @@ (<<2, 350, 359>> :> -2996436) @@ (<<2, 359, 359>> :> -102)
        @@ (<<10, 10, 10>> :> 10000000) @@ (<<10, 10, 350>> :> 3363727) @@ (<<10, 10, 359>> :> 6338354)
        @@ (<<10, 350, 350>> :> -3363727) @@ (<<10, 350, 359>> :> -336740) @@ (<<10, 359, 359>> :> 2661646)
        @@ (<<350, 350, 350>> :> -10000000) @@ (<<350, 350, 359>> :> -7002747) @@ (<<350, 359, 359>> :> -3997253)
        @@ (<<359, 359, 359>> :> -1000000)

\* The sign of JavaScript's a % b is that of a.
Remainder(a, b) == IF a >= 0 THEN a % b ELSE 0 - ((0 - a) % b)

\* meanAngle(degrees)                                 (modelAverage.ts:338-349)
meanAngle(degrees) ==
    IF Len(degrees) = 0 THEN 0
    ELSE LET avg == Atan2Degrees[SortSeq(degrees, LAMBDA a, b : a < b)]
         IN  Remainder(Remainder(avg, FullCircle) + FullCircle, FullCircle)

\* windDirs.length > 0 ? r2(meanAngle(windDirs)) : 0      (modelAverage.ts:179)
MergeWindDirection ==
    /\ averaging.pc = "called"
    /\ averaging.kind = "angle"
    /\ \E out \in IF Len(averaging.windDirs) > 0
                  THEN r2(Quotient(meanAngle(averaging.windDirs), 1000))
                  ELSE {0} :
          averaging' = [averaging EXCEPT !.pc = "returned", !.out = out]
    /\ UNCHANGED exceptAveraging

InitAngle ==
    /\ InitFetch
    /\ backoff = NoBackoff
    /\ forecast = NoForecast
    /\ consumer = NoConsumer
    /\ \E windDirs \in WindDirs :
          averaging = [pc |-> "called", kind |-> "angle", windDirs |-> windDirs,
                       out |-> Unsettled]

NextAngle ==
    \/ MergeWindDirection

AngleSpec == InitAngle /\ [][NextAngle]_vars

----------------------------------------------------------------------------
(* splitDayPeriods: a day's hourly snowfall summed into AM, PM and         *)
(* Overnight, as components/snowTimelinePeriods (MiniSnowTimeline) and     *)
(* components/charts/DailyForecastChart.tsx each define it.  A timestamp   *)
(* is its calendar day and its hour; the day after day d is d + 1.         *)

SplitDates == {15, 16}

\* The hours an hourly series may hold, each with its own snowfall.
HourlyCandidates ==
    <<[time |-> [date |-> 15, hour |-> 2], snowfall |-> 10],
      [time |-> [date |-> 15, hour |-> 7], snowfall |-> 1],
      [time |-> [date |-> 15, hour |-> 13], snowfall |-> 2],
      [time |-> [date |-> 15, hour |-> 20], snowfall |-> 3],
      [time |-> [date |-> 16, hour |-> 1], snowfall |-> 4],
      [time |-> [date |-> 16, hour |-> 8], snowfall |-> 6]>>

\* HourlyMetrics[]: the candidates at the positions `chosen`, in order.
RECURSIVE HourlyOf(_, _)
HourlyOf(chosen, k) ==
    IF k > Len(HourlyCandidates) THEN <<>>
    ELSE (IF k \in chosen THEN <<HourlyCandidates[k]>> ELSE <<>>) \o HourlyOf(chosen, k + 1)

NoPeriods == [am |-> 0, pm |-> 0, overnight |-> 0]

\* splitDayPeriods(date, hourly) of snowTimelinePeriods: the loop over
\* hourly from position k on, with the sums so far.
\*                                            (src/unnamed/part_009:456-468)
RECURSIVE TimelineLoop(_, _, _, _)
TimelineLoop(date, hourly, k, sums) ==
    IF k > Len(hourly) THEN sums
    ELSE LET h == hourly[k]
             hourDate == h.time.date
             hour == h.time.hour
             next ==
                 IF hour < 0 \/ hour > 23 THEN sums
                 ELSE IF hourDate = date
                      THEN IF hour >= 6 /\ hour < 12
                           THEN [sums EXCEPT !.am = @ + h.snowfall]
                           ELSE IF hour >= 12 /\ hour < 18
                                THEN [sums EXCEPT !.pm = @ + h.snowfall]
                                ELSE IF hour >= 18
                                     THEN [sums EXCEPT !.overnight = @ + h.snowfall]
                                     ELSE sums
                      ELSE IF hourDate = date + 1 /\ hour < 6
                           THEN [sums EXCEPT !.overnight = @ + h.snowfall]
                           ELSE sums
         IN  TimelineLoop(date, hourly, k + 1, next)

\* splitDayPeriods(date, hourly)                (src/unnamed/part_009:447-471)
splitDayPeriods(date, hourly) == TimelineLoop(date, hourly, 1, NoPeriods)

\* splitDayPeriods(date, hourly) of DailyForecastChart.tsx: the loop over
\* dayHours.                                     (DailyForecastChart.tsx:35-40)
RECURSIVE ChartLoop(_, _, _)
ChartLoop(dayHours, k, sums) ==
    IF k > Len(dayHours) THEN sums
    ELSE LET h == dayHours[k]
             hour == h.time.hour
             next ==
                 IF hour >= 6 /\ hour < 12 THEN [sums EXCEPT !.am = @ + h.snowfall]
                 ELSE IF hour >= 12 /\ hour < 18 THEN [sums EXCEPT !.pm = @ + h.snowfall]
                 ELSE [sums EXCEPT !.overnight = @ + h.snowfall]
         IN  ChartLoop(dayHours, k + 1, next)

\* splitDayPeriods(date, hourly)                 (DailyForecastChart.tsx:30-42)
chartSplitDayPeriods(date, hourly) ==
    ChartLoop(SelectSeq(hourly, LAMBDA h : h.time.date = date), 1, NoPeriods)

\* MiniSnowTimeline splits a day.                  (MiniSnowTimeline.tsx:45, 59)
TimelineSplits ==
    /\ consumer.kind = "MiniSnowTimeline"
    /\ consumer.pc = "called"
    /\ consumer' = [consumer EXCEPT !.pc = "returned",
                                    !.periods = splitDayPeriods(consumer.date, consumer.hourly)]
    /\ UNCHANGED exceptConsumer

\* DailyForecastChart splits a day.                  (DailyForecastChart.tsx:72)
ChartSplits ==
    /\ consumer.kind = "DailyForecastChart"
    /\ consumer.pc = "called"
    /\ consumer' = [consumer EXCEPT !.pc = "returned",
                                    !.periods = chartSplitDayPeriods(consumer.date, consumer.hourly)]
    /\ UNCHANGED exceptConsumer

InitPeriods ==
    /\ InitFetch
    /\ backoff = NoBackoff
    /\ forecast = NoForecast
    /\ averaging = NoAveraging
    /\ \E kind \in {"MiniSnowTimeline", "DailyForecastChart"}, date \in SplitDates,
          chosen \in SUBSET DOMAIN HourlyCandidates :
          consumer = [kind |-> kind, pc |-> "called", date |-> date,
                      hourly |-> HourlyOf(chosen, 1), periods |-> Unsettled]

NextPeriods ==
    \/ TimelineSplits
    \/ ChartSplits

PeriodsSpec == InitPeriods /\ [][NextPeriods]_vars

----------------------------------------------------------------------------
(* The claims. *)

\* Call c is issued in this step.
Issued(c) == calls[c].source = "none" /\ calls'[c].source # "none"

\* C1: a caching-enabled call issued while a doFetch run of a caching-enabled
\* call for the same key is outstanding (a fetch pending, or asleep between
\* retries) makes no network attempt of its own: it is handed the promise of
\* that run, and so settles as the first call does.
C1_JoinsOutstandingRequest ==
    [][\A c \in CallIds :
          (/\ Issued(c)
           /\ calls'[c].cacheTtlMs > 0
           /\ OutstandingFor(calls'[c].url) # {})
          => /\ calls'[c].source = "inflight"
             /\ calls'[c].promise \in OutstandingFor(calls'[c].url)
             /\ requests' = requests]_vars

\* C2: at most one doFetch run of a caching-enabled call is outstanding per key.
C2_OneOutstandingPerKey ==
    \A u \in URLs : Cardinality(OutstandingFor(u)) <= 1

\* C3: a caching-enabled doFetch run that was outstanding when clearFetchCache
\* ran is not disrupted: it and the callers holding its promise stay on their
\* way to a result, and when it has resolved and its caller resumes, its
\* document is in the cache under its key with the expiry now + cacheTtlMs,
\* so that a caching-enabled call for the key is then answered from the cache.
C3_ClearLeavesInflightAlone ==
    /\ \A c \in CallIds :
          (calls[c].source \in {"doFetch", "inflight"} /\ requests[calls[c].promise].cleared)
          => requests[calls[c].promise].pc \in {"fetch", "sleep", "settled"}
    /\ (lastOp.op = "await" /\ lastOp.cleared /\ lastOp.outcome.kind = "value")
       => /\ responseCache[lastOp.url] =
                CacheEntry(lastOp.outcome.data, now + lastOp.cacheTtlMs)
          /\ \A ttl \in 1..MaxTtl : CallPath(lastOp.url, ttl) = "cache"

\* C3's case: a run that saw clearFetchCache has resolved and handed its
\* document to its caller and to a second caller that held its promise.
C3_Witness ==
    /\ lastOp.op = "await"
    /\ lastOp.cleared
    /\ lastOp.outcome.kind = "value"
    /\ Cardinality(lastOp.callers) = 2

\* C4: a caching-enabled call is answered from the cache, with the cached
\* document and without a network attempt, exactly when the cache holds an
\* entry for its key that expires strictly after the current time; a document
\* is stored with the expiry now + cacheTtlMs, so that right after the first
\* call has its result a second call for the key is answered from the cache.
C4_CacheHitIffLive ==
    /\ [](lastOp.op = "await" /\ lastOp.outcome.kind = "value"
            => /\ responseCache[lastOp.url].present
               /\ responseCache[lastOp.url].expiresAt = now + lastOp.cacheTtlMs
               /\ \A ttl \in 1..MaxTtl : CallPath(lastOp.url, ttl) = "cache")
    /\ [][\A c \in CallIds :
             (Issued(c) /\ calls'[c].cacheTtlMs > 0)
             => LET entry == responseCache[calls'[c].url]
                IN  /\ (calls'[c].source = "cache")
                          <=> (entry.present /\ entry.expiresAt > now)
                    /\ calls'[c].source = "cache"
                          => /\ calls'[c].cached = MkValue(entry.data)
                             /\ requests' = requests]_vars

\* C4's case: a call has been answered from the cache with an entry that has
\* not expired, while the entry of the other key has.
C4_Witness ==
    \E c \in CallIds :
        /\ calls[c].source = "cache"
        /\ responseCache[calls[c].url].present
        /\ calls[c].cached = MkValue(responseCache[calls[c].url].data)
        /\ now < responseCache[calls[c].url].expiresAt
        /\ \E u \in URLs \ {calls[c].url} :
              responseCache[u].present /\ responseCache[u].expiresAt <= now

\* C5: when a caching-enabled call has failed and its caller resumes, the
\* cache is left as it was, the in-flight map holds no entry for its key, and
\* the next caching-enabled call for the key starts a doFetch of its own (a
\* new network attempt) instead of being answered with the failure or from
\* the cache.
C5_FailureNotCached ==
    [][\A c \in CallIds, u \in URLs :
          (/\ calls[c].source = "doFetch"
           /\ calls[c].url = u
           /\ calls[c].cacheTtlMs > 0
           /\ requests[c].pc = "settled"
           /\ requests[c].outcome.kind = "error"
           /\ requests'[c].pc # "settled")
          => /\ responseCache' = responseCache
             /\ inflightRequests'[u] = NoPromise
             /\ \A ttl \in 1..MaxTtl : CallPath(u, ttl)' = "doFetch"]_vars

\* An answer of the network after which the claims expect another attempt:
\* a transport failure, or a response with status 429 or 500 and above.
RetryableFailure(a) ==
    \/ a.kind = "thrown"
    \/ a.kind = "response" /\ (a.status = 429 \/ a.status >= 500)

\* An ok response that carries a JSON document.
OkJson(a) ==
    a.kind = "response" /\ a.status >= 200 /\ a.status <= 299 /\ a.body \in JsonValues

\* C6: when the first k attempts of a request end in a transport failure or a
\* 429 or >= 500 status, with k <= maxRetries, another attempt follows (the
\* request neither sleeps past its budget nor gives up before the budget is
\* spent); when attempt k+1 is answered with an ok JSON response, the request
\* is settled with that document after exactly k+1 attempts, and a settled
\* request does not change until its caller has the result.
C6_RetriesThenSucceeds ==
    /\ [](\A c \in CallIds :
            LET req == requests[c]
                n == Len(req.answers)
                k == calls[c].maxRetries
            IN  /\ (n >= 1 /\ OkJson(req.answers[n])
                        /\ \A i \in 1..(n - 1) : RetryableFailure(req.answers[i]))
                   => /\ req.pc = "settled"
                      /\ req.outcome = MkValue(req.answers[n].body)
                      /\ req.fetches = n
                      /\ n - 1 <= k
                /\ (n >= 1 /\ n <= k /\ \A i \in 1..n : RetryableFailure(req.answers[i]))
                   => \/ req.pc = "sleep" /\ req.fetches = n
                      \/ req.pc = "fetch" /\ req.fetches = n + 1)
    /\ [][\A c \in CallIds :
             (requests[c].pc = "settled" /\ requests'[c].pc = "settled")
             => requests'[c] = requests[c]]_vars

\* Two retryable failures of different kinds, then an ok JSON response.
C6_Witness ==
    LET req == requests[1]
    IN  /\ Len(req.answers) = 3
        /\ req.answers[1].kind = "thrown"
        /\ req.answers[2].kind = "response" /\ req.answers[2].status = 429
        /\ OkJson(req.answers[3])
        /\ req.pc = "settled"
        /\ req.outcome = MkValue(req.answers[3].body)
        /\ req.fetches = 3

\* C7: when an attempt is answered with a non-ok status that is neither 429
\* nor 500 and above, the request is settled at once, whatever is left of its
\* retry budget: it has made no attempt beyond the answered ones and is
\* rejected with an error whose message is '<label> <status>: <statusText>'.
C7_PermanentStatusFailsAtOnce ==
    \A c \in CallIds :
        LET req == requests[c]
            n == Len(req.answers)
        IN  (/\ n >= 1
             /\ req.answers[n].kind = "response"
             /\ ~(req.answers[n].status >= 200 /\ req.answers[n].status <= 299)
             /\ req.answers[n].status # 429
             /\ req.answers[n].status < 500)
            => /\ req.pc = "settled"
               /\ req.fetches = n
               /\ req.outcome =
                     MkError(calls[c].label \o " " \o ToString(req.answers[n].status)
                                \o ": " \o StatusText(req.answers[n].status))

\* A 404 answers the second attempt of a request that may retry twice, under
\* a label that is not the default one.
C7_Witness ==
    LET req == requests[1]
    IN  /\ calls[1].maxRetries = 2
        /\ calls[1].label = "Test API"
        /\ Len(req.answers) = 2
        /\ req.answers[1].kind = "response" /\ req.answers[1].status = 503
        /\ req.answers[2].kind = "response" /\ req.answers[2].status = 404
        /\ req.pc = "settled"
        /\ req.fetches = 2
        /\ req.outcome = MkError("Test API 404: Not Found")

\* The error of one failed attempt as the code surfaces it: a thrown Error
\* itself, the generic error in place of a thrown value that is no Error, or
\* the HTTP error built from the response.
SurfacedError(a, label) ==
    IF a.kind = "thrown"
    THEN IF a.isError THEN MkError(a.message) ELSE MkError(label \o " request failed")
    ELSE MkError(label \o " " \o ToString(a.status) \o ": " \o StatusText(a.status))

\* The error of one failed attempt as the claim's wording has it: whatever
\* was thrown, or the HTTP error built from the response.
ThrownOrHttpError(a, label) ==
    IF a.kind = "thrown" THEN MkError(a.message)
    ELSE MkError(label \o " " \o ToString(a.status) \o ": " \o StatusText(a.status))

\* The request of call c made maxRetries + 1 attempts and each failed retryably.
Exhausted(c) ==
    /\ requests[c].pc = "settled"
    /\ Len(requests[c].answers) = calls[c].maxRetries + 1
    /\ \A i \in 1..Len(requests[c].answers) : RetryableFailure(requests[c].answers[i])

\* C8, as amended: a request never makes more than maxRetries + 1 attempts;
\* when all maxRetries + 1 attempts fail retryably it is rejected with the
\* error of the final attempt (the thrown Error, the generic '<label> request
\* failed' error when the thrown value is no Error, or the HTTP error built
\* from the final response); the generic error is produced only when no
\* attempt was made or when the last attempt threw a value that is no Error.
C8_ExhaustedSurfacesLastError ==
    \A c \in CallIds :
        LET req == requests[c]
            n == Len(req.answers)
        IN  /\ req.fetches <= calls[c].maxRetries + 1
            /\ Exhausted(c) => req.outcome = SurfacedError(req.answers[n], calls[c].label)
            /\ (req.pc = "settled" /\ req.outcome = MkError(calls[c].label \o " request failed"))
               => \/ req.fetches = 0
                  \/ n >= 1 /\ req.answers[n].kind = "thrown" /\ ~req.answers[n].isError

\* Retries are exhausted by failures of both kinds, and the last attempt threw
\* a value that is no Error.
C8_Witness ==
    /\ Exhausted(1)
    /\ calls[1].maxRetries = 2
    /\ requests[1].fetches = 3
    /\ requests[1].answers[1].kind = "response"
    /\ requests[1].answers[2].kind = "thrown" /\ requests[1].answers[2].isError
    /\ requests[1].answers[3].kind = "thrown" /\ ~requests[1].answers[3].isError
    /\ requests[1].outcome = MkError(calls[1].label \o " request failed")

\* C8, as stated: a request never makes more than maxRetries + 1 attempts;
\* when all maxRetries + 1 attempts fail retryably it is rejected with the
\* thrown transport error or the HTTP error of the final attempt; the generic
\* '<label> request failed' error is produced only when no attempt was made.
C8_GenericOnlyWithoutAttempt ==
    \A c \in CallIds :
        LET req == requests[c]
            n == Len(req.answers)
        IN  /\ req.fetches <= calls[c].maxRetries + 1
            /\ Exhausted(c) => req.outcome = ThrownOrHttpError(req.answers[n], calls[c].label)
            /\ (req.pc = "settled" /\ req.outcome = MkError(calls[c].label \o " request failed"))
               => req.fetches = 0

\* C9: a call with cacheTtlMs = 0 starts a doFetch of its own, which makes at
\* least one network attempt, whatever the cache and the in-flight map hold
\* for its key; neither issuing it, nor any step of its doFetch, nor handing
\* its result to the caller changes the cache or the in-flight map.
C9_ZeroTtlBypassesCache ==
    [][\A c \in CallIds :
          /\ (Issued(c) /\ calls'[c].cacheTtlMs = 0)
             => /\ calls'[c].source = "doFetch"
                /\ calls'[c].promise = c
                /\ requests'[c].fetches >= 1
                /\ responseCache' = responseCache
                /\ inflightRequests' = inflightRequests
          /\ (/\ calls[c].source # "none"
              /\ calls[c].cacheTtlMs = 0
              /\ requests'[c] # requests[c])
             => /\ responseCache' = responseCache
                /\ inflightRequests' = inflightRequests]_vars

\* C9's case: a call with cacheTtlMs = 0 has fetched a document of its own
\* while the cache holds a live entry with another document for its key, and
\* the other caller's request for the other key is in the in-flight map.
C9_Witness ==
    \E c \in CallIds :
        /\ calls[c].source = "doFetch"
        /\ calls[c].cacheTtlMs = 0
        /\ requests[c].pc = "settled"
        /\ requests[c].outcome.kind = "value"
        /\ requests[c].fetches >= 1
        /\ CacheLive(calls[c].url)
        /\ responseCache[calls[c].url].data # requests[c].outcome.data
        /\ \E u \in URLs : inflightRequests[u] \in CallIds \ {c}

\* C10: right after clearFetchCache the response cache holds no entry, and a
\* call for any key that has no outstanding request, caching-enabled or not,
\* starts a doFetch of its own, even if the key had a live entry.
C10_ClearForcesRefetch ==
    lastOp.op = "clear"
    => /\ \A u \in URLs : ~responseCache[u].present
       /\ \A u \in URLs, ttl \in 0..MaxTtl :
             OutstandingFor(u) = {}
             => /\ CallPath(u, ttl) = "doFetch"
                /\ \A maxRetries \in SpecRetries :
                      StartDoFetch(maxRetries, "HTTP").fetches = 1

\* C10's case: clearFetchCache has just dropped an entry that had not expired,
\* of a key with no outstanding request.
C10_Witness ==
    /\ lastOp.op = "clear"
    /\ \E u \in lastOp.dropped : OutstandingFor(u) = {}

\* The hint the server gave, in milliseconds: the seconds form rounded to a
\* millisecond, the timestamp form as the time left until it, and 0 for a
\* header that is absent, empty, no number and no date, or negative.
HintMs(b) ==
    CASE b.failure = "thrown" -> 0
      [] b.header.form = "number" /\ b.header.units >= 0 ->
            CHOOSE ms \in 0..(b.header.units \div 10 + 1) :
                /\ 2 * (10 * ms - b.header.units) <= 10
                /\ 2 * (b.header.units - 10 * ms) < 10
      [] b.header.form = "date" /\ b.header.time > b.dateNow -> b.header.time - b.dateNow
      [] OTHER -> 0

\* baseDelayMs * 2^attempt, capped by maxDelayMs.
ExponentialMs(b) ==
    LET doubled[a \in 0..b.attempt] ==
            IF a = 0 THEN b.baseDelayMs ELSE doubled[a - 1] + doubled[a - 1]
    IN  IF doubled[b.attempt] < b.maxDelayMs THEN doubled[b.attempt] ELSE b.maxDelayMs

C12_KeyIsRequestIdentity ==
    [][\A c \in CallIds :
          Issued(c)
          => /\ calls'[c].source = "cache"
                => cacheOrigin[calls'[c].url] = calls'[c].init
             /\ calls'[c].source = "inflight"
                => /\ calls[calls'[c].promise].url = calls'[c].url
                   /\ calls[calls'[c].promise].init = calls'[c].init]_vars

\* The requested models that have an hourly series in a combined response.
UsableSeries(data, models) ==
    {i \in 1..Len(models) : data.hourly.present /\ models[i] \in data.hourly.suffixed}

\* The combined request of a finished fetchMultiModelForecast call failed,
\* or its response had no series for any requested model.
NeedsFallback ==
    /\ forecast.pc = "done"
    /\ forecast.entry = "fetchMultiModelForecast"
    /\ \/ forecast.combined.state = "rejected"
       \/ /\ forecast.combined.state = "resolved"
          /\ UsableSeries(forecast.combined.data, forecast.models) = {}

\* What fetchForecast called with the arguments of the call returned.
FallbackResult ==
    IF forecast.single.state = "rejected" THEN MkError(forecast.single.message)
    ELSE fetchForecastResult(forecast.args, forecast.single.data)

\* C13: a fetchMultiModelForecast call whose combined request failed, or whose
\* response had no usable per-model series, made the single-model request
\* once, with the same arguments, and returned what fetchForecast returned;
\* no call makes the fallback request more than once.
C13_FallbackInsteadOfFailing ==
    /\ forecast.pc # "idle" => forecast.fallbacks <= 1
    /\ NeedsFallback
       => /\ forecast.fallbacks = 1
          /\ forecast.single.state \in {"rejected", "resolved"}
          /\ forecast.single.args = forecast.args
          /\ forecast.outcome = FallbackResult

\* The response a finished call's BandForecast was mapped from.
MappedFrom ==
    IF forecast.single.state = "resolved" THEN forecast.single.data
    ELSE forecast.combined.data

\* C16: a call that returned a BandForecast mapped it from a response that is
\* a valid forecast payload: not of the error shape and with every required
\* hourly and daily array.
C16_InvalidPayloadNeverMapped ==
    (forecast.pc = "done" /\ forecast.outcome.kind = "value")
    => isForecastResponsePayload(MappedFrom)

\* C14: a finished load of useForecast that the component has not given up
\* finished after all three band requests had settled, and delivered the
\* data of every band that succeeded.
C14_BandsCombinedAfterAllSettled ==
    consumer.kind = "useForecast"
    => \A l \in LoadIds :
          (consumer.loads[l].pc = "done" /\ ~consumer.loads[l].abandoned)
          => /\ AllSettled(consumer.loads[l])
             /\ consumer.loads[l].delivered = Fulfilled(consumer.loads[l])

\* C15: a step taken by a load the component has given up (one of its
\* requests settles, or it resumes) leaves the component's state as it was,
\* and giving a load up leaves its requests as they were.
C15_AbandonedLoadAppliesNothing ==
    [][consumer.kind # "none"
       => \A l \in LoadIds :
             /\ (consumer.loads[l].abandoned /\ consumer'.loads[l] # consumer.loads[l])
                => consumer'.state = consumer.state
             /\ (~consumer.loads[l].abandoned /\ consumer'.loads[l].abandoned)
                => consumer'.loads[l].fetches = consumer.loads[l].fetches]_vars

\* The call averaged two or more series.
Merged == averaging.pc = "returned" /\ Len(averaging.models) >= 2

Primary == IF averaging.kind = "hourly" THEN "temperature_2m" ELSE "temperature_2m_max"

\* Model m has timestamp t, and the row where it has it.
Covers(m, t) == \E i \in 1..Len(averaging.models[m].time) : averaging.models[m].time[i] = t
RowOf(m, t) ==
    CHOOSE i \in 1..Len(averaging.models[m].time) : averaging.models[m].time[i] = t

\* The models that have timestamp t and a non-null value of the field there.
Contributors(t, field) ==
    {m \in 1..Len(averaging.models) :
        Covers(m, t) /\ ~averaging.models[m][field][RowOf(m, t)].null}
ValueAt(m, t, field) == averaging.models[m][field][RowOf(m, t)].value

InputTimes == {t \in 0..1 : \E m \in 1..Len(averaging.models) : Covers(m, t)}
Emitted == 1..Len(averaging.out.time)

RECURSIVE SumOver(_, _, _)
SumOver(set, t, field) ==
    IF set = {} THEN 0
    ELSE LET m == CHOOSE m \in set : TRUE
         IN  ValueAt(m, t, field) + SumOver(set \ {m}, t, field)

\* Twice the median of the field's values over a non-empty set of models.
MedianTwice(set, t, field) ==
    LET n == Cardinality(set)
        order == CHOOSE p \in [1..n -> set] :
                    /\ \A i, j \in 1..n : i # j => p[i] # p[j]
                    /\ \A i, j \in 1..n :
                          i < j => ValueAt(p[i], t, field) <= ValueAt(p[j], t, field)
    IN  IF n % 2 = 0
        THEN ValueAt(order[n \div 2], t, field) + ValueAt(order[n \div 2 + 1], t, field)
        ELSE 2 * ValueAt(order[(n + 1) \div 2], t, field)

\* q is num / den rounded to two decimals.
RoundedTwo(q, num, den) == q % 10 = 0 /\ 2 * Abs(q * den - num) <= 10 * den

MedianFields == {"precipitation", "precipitation_sum"}
MeanFields == FieldsOf(averaging.kind) \ (MedianFields \cup {"weather_code"})

\* The documented default of a field no model has a value for, in row k of
\* the output.
DefaultOf(field, k) ==
    CASE field \in {"apparent_temperature"} -> averaging.out.temperature_2m[k].value
      [] field \in {"temperature_2m_min", "apparent_temperature_max"} ->
            averaging.out.temperature_2m_max[k].value
      [] field = "apparent_temperature_min" -> averaging.out.temperature_2m_min[k].value
      [] OTHER -> 0

\* The merged timestamps are the ascending, duplicate-free union of the input
\* timestamps without those where no input has a non-null primary field.
MergedTimestamps ==
    /\ \A i, j \in Emitted : i < j => averaging.out.time[i] < averaging.out.time[j]
    /\ {averaging.out.time[k] : k \in Emitted}
          = {t \in InputTimes : Contributors(t, Primary) # {}}

CoveredByOne(k) ==
    Cardinality({m \in 1..Len(averaging.models) : Covers(m, averaging.out.time[k])}) = 1
OnlyModel(k) ==
    CHOOSE m \in 1..Len(averaging.models) : Covers(m, averaging.out.time[k])

\* C17 as stated: the merged timestamps, and at a timestamp that one model
\* covers every field is that model's value.
C17_SingleModelValuesCarried ==
    Merged
    => /\ MergedTimestamps
       /\ \A k \in Emitted :
             CoveredByOne(k)
             => \A field \in FieldsOf(averaging.kind) :
                   averaging.out[field][k]
                      = averaging.models[OnlyModel(k)][field]
                            [RowOf(OnlyModel(k), averaging.out.time[k])]

\* C17: for two or more series the merged timestamps are the ascending,
\* duplicate-free union of the input timestamps without those where no input
\* has a non-null primary field; at a timestamp that one model covers every
\* field is that model's value rounded to two decimals (its weather code as
\* it is), or the documented default where that model has null.
C17_UnionOfTimestamps ==
    Merged
    => /\ MergedTimestamps
       /\ \A k \in Emitted :
             CoveredByOne(k)
             => \A field \in FieldsOf(averaging.kind) :
                   LET t == averaging.out.time[k]
                       m == OnlyModel(k)
                       q == averaging.out[field][k].value
                   IN  IF m \notin Contributors(t, field) THEN q = DefaultOf(field, k)
                       ELSE IF field = "weather_code" THEN q = ValueAt(m, t, field)
                       ELSE RoundedTwo(q, ValueAt(m, t, field), 1)

\* Series given out of time order are merged: one timestamp is dropped and
\* one is covered by a single model that has null fields there.
C17_Witness ==
    /\ Merged
    /\ averaging.models[1].time = <<1>>
    /\ averaging.models[2].time = <<0, 1>>
    /\ Len(averaging.out.time) = 1
    /\ \E k \in Emitted :
          /\ CoveredByOne(k)
          /\ \E field \in FieldsOf(averaging.kind) :
                OnlyModel(k) \notin Contributors(averaging.out.time[k], field)

\* C18 as stated: every numeric field that has contributors is exactly
\* their median or their mean.
C18_ExactMedianAndMean ==
    Merged
    => \A k \in Emitted :
          \A field \in MedianFields \cup MeanFields :
             LET t == averaging.out.time[k]
                 from == Contributors(t, field)
                 q == averaging.out[field][k].value
             IN  (field \in DOMAIN averaging.out /\ from # {})
                 => IF field \in MedianFields
                    THEN 2 * q = MedianTwice(from, t, field)
                    ELSE q * Cardinality(from) = SumOver(from, t, field)

\* C18: for two or more series and every emitted timestamp, each numeric
\* field other than the weather code is computed from exactly the models
\* that have the timestamp and a non-null value of that field: the median of
\* their values for precipitation and the precipitation sum, the mean for the
\* others, rounded to two decimals; a field without such a model gets its
\* default.
C18_MedianAndMeanPerField ==
    Merged
    => \A k \in Emitted :
          \A field \in MedianFields \cup MeanFields :
             LET t == averaging.out.time[k]
                 from == Contributors(t, field)
                 q == averaging.out[field][k].value
             IN  field \in DOMAIN averaging.out
                 => IF from = {} THEN q = DefaultOf(field, k)
                    ELSE IF field \in MedianFields
                    THEN RoundedTwo(q, MedianTwice(from, t, field), 2)
                    ELSE RoundedTwo(q, SumOver(from, t, field), Cardinality(from))

\* Three series at one timestamp: the median is of three values while
\* another field has fewer contributors, and a mean is not a multiple of 0.01.
C18_Witness ==
    /\ Merged
    /\ \E k \in Emitted :
          LET t == averaging.out.time[k]
          IN  /\ \E field \in MedianFields :
                    /\ field \in DOMAIN averaging.out
                    /\ Cardinality(Contributors(t, field)) = 3
              /\ Cardinality(Contributors(t, Primary)) = 2
              /\ \E field \in MeanFields :
                    /\ Contributors(t, field) # {}
                    /\ averaging.out[field][k].value * Cardinality(Contributors(t, field))
                          # SumOver(Contributors(t, field), t, field)

\* The codes that are most frequent among the models, and the first of them
\* in model order.
MostFrequent(t, from) ==
    LET count(code) ==
            Cardinality({m \in from : ValueAt(m, t, "weather_code") = code})
    IN  {ValueAt(m, t, "weather_code") : m \in
            {m \in from : \A n \in from :
                count(ValueAt(n, t, "weather_code")) <= count(ValueAt(m, t, "weather_code"))}}
FirstEncountered(t, from) ==
    LET first == CHOOSE m \in from :
                    /\ ValueAt(m, t, "weather_code") \in MostFrequent(t, from)
                    /\ \A n \in from :
                          ValueAt(n, t, "weather_code") \in MostFrequent(t, from) => m <= n
    IN  ValueAt(first, t, "weather_code")

\* C19: the merged weather code at a timestamp is the most frequent code
\* among the contributing models, and of several codes tied for most
\* frequent the one encountered first in model order.
C19_ModeFirstEncountered ==
    Merged
    => \A k \in Emitted :
          LET t == averaging.out.time[k]
              from == Contributors(t, "weather_code")
          IN  from # {}
              => averaging.out.weather_code[k].value = FirstEncountered(t, from)

\* C20: a call with exactly one series returns that series: the same
\* timestamps and the same values, nulls included.
C20_SingleSeriesUnchanged ==
    (averaging.pc = "returned" /\ Len(averaging.models) = 1)
    => averaging.out = averaging.models[1]

\* A single series is returned whose first row has no primary value and
\* whose second has one.
C20_Witness ==
    /\ averaging.pc = "returned"
    /\ Len(averaging.models) = 1
    /\ Len(averaging.models[1].time) = 2
    /\ averaging.models[1][Primary][1].null
    /\ ~averaging.models[1][Primary][2].null

\* C21: for two or more series every output array is as long as the output
\* time array and holds no null, and a field other than the primary one that
\* no model has a value for at an emitted timestamp holds its default: the
\* merged temperature for an apparent temperature, the merged maximum for
\* the minimum temperature, 0 for every other field.
C21_AlignedAndDefaulted ==
    Merged
    => \A field \in FieldsOf(averaging.kind) :
          /\ Len(averaging.out[field]) = Len(averaging.out.time)
          /\ \A k \in 1..Len(averaging.out[field]) :
                /\ ~averaging.out[field][k].null
                /\ (k \in Emitted /\ Contributors(averaging.out.time[k], field) = {})
                   => averaging.out[field][k].value = DefaultOf(field, k)

\* A merged row in which a field without any contributor got a default
\* other than 0, and the weather code the default 0.
C21_Witness ==
    /\ Merged
    /\ \E k \in Emitted :
          /\ Contributors(averaging.out.time[k], "weather_code") = {}
          /\ averaging.out.weather_code[k].value = 0
          /\ \E field \in FieldsOf(averaging.kind) :
                /\ Contributors(averaging.out.time[k], field) = {}
                /\ averaging.out[field][k].value # 0


\* The call of blendWithNWS has returned.
BlendReturned == averaging.kind = "blend" /\ averaging.pc = "returned"

\* The dates of the model days of the call.
ModelDates == {averaging.modelSnowDays[i].date : i \in DOMAIN averaging.modelSnowDays}

\* Ten times the weighted sum of day i's model value and the external value.
WeightedSum(i) ==
    (10 - averaging.nwsWeight) * averaging.modelSnowDays[i].snowfallSum
        + averaging.nwsWeight * averaging.nwsSnowMap[averaging.modelSnowDays[i].date]

\* C22 as stated: the blended value is exactly the weighted sum.
C22_ExactWeightedSum ==
    BlendReturned
    => \A i \in DOMAIN averaging.modelSnowDays :
          averaging.modelSnowDays[i].date \in DOMAIN averaging.nwsSnowMap
          => 10 * averaging.out[averaging.modelSnowDays[i].date] = WeightedSum(i)

\* C22: blendWithNWS returns a map whose dates are exactly the dates of the
\* model days; a day whose date is in the external map gets the weighted sum
\* (1 - w) * model + w * external rounded to two decimals, and a day whose
\* date is not in the external map keeps its model value unchanged, unrounded.
C22_RoundedWeightedSum ==
    BlendReturned
    => /\ DOMAIN averaging.out = ModelDates
       /\ \A i \in DOMAIN averaging.modelSnowDays :
             LET day == averaging.modelSnowDays[i]
             IN  IF day.date \in DOMAIN averaging.nwsSnowMap
                 THEN /\ averaging.out[day.date] % 10 = 0
                      /\ 2 * Abs(10 * averaging.out[day.date] - WeightedSum(i)) <= 100
                 ELSE averaging.out[day.date] = day.snowfallSum

\* Model 10 and external 20 at the default weight gave 13, beside a day
\* without an external value and an external date that is no model day.
C22_Witness ==
    /\ BlendReturned
    /\ averaging.nwsWeight = DefaultWeight
    /\ \E i \in DOMAIN averaging.modelSnowDays :
          /\ averaging.modelSnowDays[i].snowfallSum = 10000
          /\ averaging.modelSnowDays[i].date \in DOMAIN averaging.nwsSnowMap
          /\ averaging.nwsSnowMap[averaging.modelSnowDays[i].date] = 20000
          /\ averaging.out[averaging.modelSnowDays[i].date] = 13000
    /\ \E i \in DOMAIN averaging.modelSnowDays :
          /\ averaging.modelSnowDays[i].date \notin DOMAIN averaging.nwsSnowMap
          /\ averaging.modelSnowDays[i].snowfallSum = 1234
    /\ DOMAIN averaging.nwsSnowMap \ ModelDates # {}


\* mapDaily has returned the days of a BandForecast.
Mapped == forecast.pc = "mapped"

\* The hourly entries that belong to date t: those whose timestamp is t
\* followed by the time of day.
HoursOf(t) == {j \in DOMAIN forecast.hourly : SubSeq(forecast.hourly[j].time, 1, 2) = t}

\* The sum of `field` over the hourly entries `hours`.
RECURSIVE SumOfHours(_, _)
SumOfHours(hours, field) ==
    IF hours = {} THEN 0
    ELSE LET j == CHOOSE j \in hours : TRUE
         IN  forecast.hourly[j][field] + SumOfHours(hours \ {j}, field)

\* C23: every day's snowfallSum and rainSum are the sums of the corrected
\* hourly snowfall and rain over exactly the hourly entries of that date, an
\* hourly entry counts for at most one day, and the result is what it would
\* be had the provider's daily rain_sum and snowfall_sum been all zero.
C23_DailySumsFromHourly ==
    Mapped
    => /\ Len(forecast.daily) = Len(forecast.raw.time)
       /\ \A i \in DOMAIN forecast.daily :
             /\ forecast.daily[i].date = forecast.raw.time[i]
             /\ forecast.daily[i].snowfallSum = SumOfHours(HoursOf(forecast.raw.time[i]), "snowfall")
             /\ forecast.daily[i].rainSum = SumOfHours(HoursOf(forecast.raw.time[i]), "rain")
       /\ \A j \in DOMAIN forecast.hourly :
             Cardinality({i \in DOMAIN forecast.raw.time :
                             Len(dayHourly(<<forecast.hourly[j]>>, forecast.raw.time[i])) = 1}) <= 1
       /\ forecast.daily
             = mapDaily([forecast.raw EXCEPT !.rain_sum = [i \in DOMAIN forecast.raw.time |-> 0],
                                             !.snowfall_sum = [i \in DOMAIN forecast.raw.time |-> 0]],
                        forecast.hourly)

\* Two days were rolled up, the first from two hours with snowfall and the
\* second from one, while the provider's sums said otherwise.
C23_Witness ==
    /\ Mapped
    /\ Len(forecast.daily) = 2
    /\ Len(forecast.hourly) = 3
    /\ \A j \in 1..3 : forecast.hourly[j].snowfall = 1500 /\ forecast.hourly[j].rain = 700
    /\ forecast.daily[1].snowfallSum = 3000
    /\ forecast.daily[2].snowfallSum = 1500
    /\ forecast.daily[1].rainSum = 1400
    /\ forecast.raw.snowfall_sum[1] = 5000
    /\ forecast.raw.rain_sum[1] = 5000


\* A wind direction has been merged from at least one contributing direction.
AngleMerged ==
    averaging.kind = "angle" /\ averaging.pc = "returned" /\ Len(averaging.windDirs) > 0

\* C24: the merged wind direction lies in [0, 360); a single direction
\* merges to itself, and 350 and 10 degrees merge to 0.
C24_DirectionInRange ==
    AngleMerged
    => /\ 0 <= averaging.out
       /\ averaging.out < 360000
       /\ Len(averaging.windDirs) = 1 => averaging.out = 1000 * averaging.windDirs[1]
       /\ averaging.windDirs \in {<<350, 10>>, <<10, 350>>} => averaging.out = 0

\* A finished fetchMultiModelForecast call handed the series of its split
\* to averageHourlyArrays and, when there were any, averageDailyArrays.
HandedOver ==
    /\ forecast.pc = "done"
    /\ forecast.entry = "fetchMultiModelForecast"
    /\ forecast.combined.state = "resolved"
    /\ AfterCombined(forecast.combined.data, forecast.models) = "merge"

\* Every series split from `section` has every array the aggregator reads,
\* and a time array as long as they are: as long as the section's own.
RawSeriesInvariant(section, models) ==
    \A i \in 1..Len(SplitSection(section, models)) :
        /\ SplitSection(section, models)[i].arrays = "all"
        /\ Len(SplitSection(section, models)[i].time) = Len(section.time)

\* C25: every per-model series handed to the aggregator has every field array
\* the aggregator reads, of the same length as its time array.
C25_SeriesSatisfyRawSeriesInvariant ==
    HandedOver
    => /\ RawSeriesInvariant(forecast.combined.data.hourly, forecast.models)
       /\ RawSeriesInvariant(forecast.combined.data.daily, forecast.models)

\* The snowfall of the hourly entries of the split on day `date` whose hour
\* is in `hours`.
RECURSIVE SnowfallIn(_, _, _)
SnowfallIn(date, hours, k) ==
    IF k > Len(consumer.hourly) THEN 0
    ELSE (IF consumer.hourly[k].time.date = date /\ consumer.hourly[k].time.hour \in hours
          THEN consumer.hourly[k].snowfall ELSE 0)
         + SnowfallIn(date, hours, k + 1)

\* C26: splitDayPeriods(date, hourly) returns as AM the snowfall of the date's
\* hours 6-11, as PM that of its hours 12-17 and as Overnight that of its
\* hours 18-23 and of the next day's hours 0-5, and counts nothing else.
C26_PeriodsOfTheDate ==
    (consumer.kind \in {"MiniSnowTimeline", "DailyForecastChart"} /\ consumer.pc = "returned")
    => /\ consumer.periods.am = SnowfallIn(consumer.date, 6..11, 1)
       /\ consumer.periods.pm = SnowfallIn(consumer.date, 12..17, 1)
       /\ consumer.periods.overnight
             = SnowfallIn(consumer.date, 18..23, 1) + SnowfallIn(consumer.date + 1, 0..5, 1)

\* The caching-enabled calls for key u that started their own request and
\* have not settled: doFetch runs, or has settled and the call is about to
\* resume from `await promise`.
UnsettledRequests(u) ==
    {c \in CallIds : /\ calls[c].source = "doFetch"
                     /\ calls[c].cacheTtlMs > 0
                     /\ cacheKey(calls[c].url, calls[c].init) = u}

\* C27: the in-flight map holds an entry for a key exactly when a
\* caching-enabled request for that key has been started and has not settled,
\* and the entry is the promise of that request.
C27_InflightEntryWhileUnsettled ==
    \A u \in URLs :
        /\ inflightRequests[u] # NoPromise <=> UnsettledRequests(u) # {}
        /\ inflightRequests[u] # NoPromise => UnsettledRequests(u) = {inflightRequests[u]}

\* Call c resumes from `await promise` in this step.
Resumes(c) == requests[c].pc = "settled" /\ calls[c].cacheTtlMs > 0 /\ calls'[c].source = "none"

\* The last answer of the network to doFetch run r was a failure that is
\* retried: the transport threw, or the status is one of shouldRetryStatus.
LastAnswerRetryable(r) ==
    /\ requests[r].answers # <<>>
    /\ LET last == requests[r].answers[Len(requests[r].answers)]
       IN  \/ last.kind = "thrown"
           \/ last.kind = "response" /\ shouldRetryStatus(last.status)

\* C28: when a call resumes whose promise another caller was handed, that
\* caller settles in the same step with the same outcome, no doFetch run was
\* made on its behalf, the run made the attempts of the originating call's
\* maxRetries and labelled its error with the originating call's label, and
\* a document is cached until now + the originating call's cacheTtlMs.
C28_JoinerGetsOriginatorsOutcome ==
    [][\A c \in CallIds : \A j \in Joiners(c) :
          Resumes(c)
          => /\ calls'[j].source = "none"
             /\ j \in lastOp'.callers
             /\ lastOp'.outcome = requests[c].outcome
             /\ requests[j] = NoRequest
             /\ requests[c].fetches <= calls[c].maxRetries + 1
             /\ (requests[c].outcome.kind = "error" /\ LastAnswerRetryable(c))
                => /\ requests[c].fetches = calls[c].maxRetries + 1
                   /\ requests[c].outcome
                         \in {MkError(NetworkDown.message), HttpError(calls[c].label, 503)}
             /\ requests[c].outcome.kind = "value"
                => responseCache'[cacheKey(calls[c].url, calls[c].init)]
                      = CacheEntry(requests[c].outcome.data, now + calls[c].cacheTtlMs)]_vars

\* A request has resolved whose promise a caller with another cacheTtlMs,
\* maxRetries and label holds.
C28_Witness ==
    \E c \in CallIds : \E j \in Joiners(c) :
        /\ requests[c].pc = "settled"
        /\ requests[c].outcome.kind = "value"
        /\ calls[j].cacheTtlMs > calls[c].cacheTtlMs
        /\ calls[j].maxRetries # calls[c].maxRetries
        /\ calls[j].label # calls[c].label

\* The i-th answer to doFetch run r was an ok response whose body is no JSON.
Unparsable(r, i) ==
    /\ requests[r].answers[i].kind = "response"
    /\ ResOk(requests[r].answers[i].status)
    /\ requests[r].answers[i].body \notin JsonValues

\* C29: an ok response whose body cannot be parsed is the last answer its
\* doFetch run asks for: the run has rejected, and when its call resumes the
\* response cache is left as it is and the in-flight entry of the key is gone.
C29_UnparsableBodyRejectsAtOnce ==
    [][\A c \in CallIds : \A i \in DOMAIN requests[c].answers :
          Unparsable(c, i)
          => /\ i = Len(requests[c].answers)
             /\ requests[c].fetches = i
             /\ requests[c].pc = "settled"
             /\ requests[c].outcome.kind = "error"
             /\ Resumes(c)
                => /\ responseCache' = responseCache
                   /\ inflightRequests'[cacheKey(calls[c].url, calls[c].init)] = NoPromise]_vars

\* A run with a retry left has rejected on the unparsable body of its first
\* attempt, and its in-flight entry is still there.
C29_Witness ==
    \E c \in CallIds :
        /\ Len(requests[c].answers) = 1
        /\ Unparsable(c, 1)
        /\ calls[c].maxRetries = 1
        /\ requests[c].pc = "settled"
        /\ inflightRequests[calls[c].url] = c

\* A hook is mounted and every request it started has settled.
NothingPending ==
    /\ consumer.kind \in {"useForecast", "useHistorical"}
    /\ \A l \in LoadIds : \A f \in DOMAIN consumer.loads[l].fetches :
          consumer.loads[l].fetches[f] # "pending"

\* The hook reports that it is not loading.
NotLoading == consumer.kind # "none" /\ ~consumer.state.loading

\* C30: once every request a hook started has settled, its `loading` is
\* false or becomes false.
C30_LoadingEventuallyFalse == NothingPending ~> NotLoading

====
